---------------------------- MODULE Spec2Model ----------------------------
(***************************************************************************)
(* A model of the redis-go-clone server: the Keyspace (KeyDataSpace), the  *)
(* Expiration Index (KeyExpirationMinHeap over container/heap), the        *)
(* command handlers, the reaper goroutine and the RDB snapshot engine.     *)
(*                                                                         *)
(* Go strings are byte sequences: keys and values are tuples of byte       *)
(* values.  Go maps are functions whose DOMAIN is the set of present keys. *)
(* Slice indices are 0-based as in the source: items[i] is h.items[i+1].   *)
(***************************************************************************)
EXTENDS Integers, Sequences, FiniteSets, TLC

(***************************************************************************)
(* Bounds of the model.                                                    *)
(***************************************************************************)
\* Width, in bits, of the model's int64 (two's complement).
IntBits == 16
\* Largest deadline a heap-only run pushes (deadlines 1..MaxDeadline).
MaxDeadline == 2
\* Keys of the heap-only runs: six, so that heap.Remove meets its `up` case.
HeapKeys == {<<97>>, <<98, 99>>, <<100>>, <<101>>, <<102>>, <<103>>}

(***************************************************************************)
(* Program constants.                                                      *)
(***************************************************************************)
\* math.MaxInt64 at the model's width.
MaxInt64 == 2 ^ (IntBits - 1) - 1
NO_EXP_TS == -1

\* The zero value KeyExpiration{}.
ZeroKeyExpiration == [key |-> <<>>, expire_timestamp |-> 0]

(***************************************************************************)
(* Go map primitives.                                                      *)
(***************************************************************************)
EmptyMap == [k \in {} |-> 0]

\* m[k] = v
MapSet(m, k, v) == [x \in DOMAIN m \cup {k} |-> IF x = k THEN v ELSE m[x]]

\* delete(m, k)
MapDelete(m, k) == [x \in DOMAIN m \ {k} |-> m[x]]

(***************************************************************************)
(* KeyExpirationMinHeap: heap.Interface methods (non-locking).             *)
(* A heap value is [items |-> Seq(KeyExpiration), index |-> key -> int].   *)
(***************************************************************************)
NewKeyExpirationMinHeap == [items |-> <<>>, index |-> EmptyMap]

HeapLen(h) == Len(h.items)

Less(h, i, j) ==
    h.items[i + 1].expire_timestamp < h.items[j + 1].expire_timestamp

\* A Swap that forgets the index map (the pre-index version of the heap).
SwapNoIndex(h, i, j) ==
    [h EXCEPT !.items = [h.items EXCEPT ![i + 1] = h.items[j + 1],
                                        ![j + 1] = h.items[i + 1]]]

Swap(h, i, j) ==
    LET it == [h.items EXCEPT ![i + 1] = h.items[j + 1],
                              ![j + 1] = h.items[i + 1]]
        ix1 == MapSet(h.index, it[i + 1].key, i)
        ix2 == MapSet(ix1, it[j + 1].key, j)
    IN  [items |-> it, index |-> ix2]

Push(h, item) ==
    [items |-> Append(h.items, item),
     index |-> MapSet(h.index, item.key, Len(h.items))]

\* Returns the shortened heap and the removed last item.
Pop(h) ==
    LET n    == Len(h.items)
        item == h.items[n]
    IN  [h    |-> [items |-> SubSeq(h.items, 1, n - 1),
                   index |-> MapDelete(h.index, item.key)],
         item |-> item]

(***************************************************************************)
(* container/heap, as called by the public API: up, down, Push, Pop,       *)
(* Remove, Fix.                                                            *)
(***************************************************************************)
\* Go's (j - 1) / 2 truncates toward zero: parent of 0 is 0.
Parent(j) == IF j = 0 THEN 0 ELSE (j - 1) \div 2

RECURSIVE up(_, _)
up(h, j) ==
    LET i == Parent(j)
    IN  IF i = j \/ ~Less(h, j, i) THEN h ELSE up(Swap(h, i, j), i)

RECURSIVE downLoop(_, _, _)
downLoop(h, i, n) ==
    LET j1 == 2 * i + 1
    IN  IF j1 >= n
        THEN [h |-> h, i |-> i]
        ELSE LET j == IF j1 + 1 < n /\ Less(h, j1 + 1, j1) THEN j1 + 1 ELSE j1
             IN  IF ~Less(h, j, i)
                 THEN [h |-> h, i |-> i]
                 ELSE downLoop(Swap(h, i, j), j, n)

\* down reports whether the element moved.
down(h, i0, n) ==
    LET r == downLoop(h, i0, n) IN [h |-> r.h, moved |-> r.i > i0]

heapPush(h, item) == up(Push(h, item), HeapLen(h))

heapPop(h) ==
    LET n == HeapLen(h) - 1
    IN  Pop(down(Swap(h, 0, n), 0, n).h)

\* A heap.Remove that moves the last entry into the slot and sifts nothing.
heapRemoveNoSift(h, i) == Pop(Swap(h, i, HeapLen(h) - 1))

heapRemove(h, i) ==
    LET n == HeapLen(h) - 1
    IN  IF n # i
        THEN LET s == Swap(h, i, n)
                 d == down(s, i, n)
             IN  Pop(IF d.moved THEN d.h ELSE up(d.h, i))
        ELSE Pop(h)

heapFix(h, i) ==
    LET d == down(h, i, HeapLen(h))
    IN  IF d.moved THEN d.h ELSE up(d.h, i)

(***************************************************************************)
(* KeyExpirationMinHeap: public API.  Each method runs under h.mu, so each *)
(* is one atomic step.                                                     *)
(***************************************************************************)
Peek(h) ==
    IF Len(h.items) = 0
    THEN [item |-> ZeroKeyExpiration, ok |-> FALSE]
    ELSE [item |-> h.items[1], ok |-> TRUE]

\* A PushItem that always appends (the heap before it enforced uniqueness).
PushItemAlwaysAppend(h, item) == heapPush(h, item)

\* A PushItem that overwrites the deadline in place and skips heap.Fix.
PushItemNoFix(h, item) ==
    IF item.key \in DOMAIN h.index
    THEN [h EXCEPT !.items[h.index[item.key] + 1].expire_timestamp =
                       item.expire_timestamp]
    ELSE heapPush(h, item)

PushItem(h, item) ==
    IF item.key \in DOMAIN h.index
    THEN LET existingIdx == h.index[item.key]
         IN  heapFix([h EXCEPT !.items[existingIdx + 1].expire_timestamp =
                                   item.expire_timestamp],
                     existingIdx)
    ELSE heapPush(h, item)

PopMin(h) ==
    IF HeapLen(h) = 0
    THEN [h |-> h, item |-> ZeroKeyExpiration, ok |-> FALSE]
    ELSE LET p == heapPop(h) IN [h |-> p.h, item |-> p.item, ok |-> TRUE]

HeapRemove(h, key) ==
    IF key \in DOMAIN h.index
    THEN LET p == heapRemove(h, h.index[key])
         IN  [h |-> p.h, item |-> p.item, ok |-> TRUE]
    ELSE [h |-> h, item |-> ZeroKeyExpiration, ok |-> FALSE]

\* UpdateExpiration: PushItem for a key already indexed; a no-op reporting
\* false for an absent key.
UpdateExpiration(h, key, ts) ==
    IF key \in DOMAIN h.index
    THEN [h |-> PushItem(h, [key |-> key, expire_timestamp |-> ts]),
          ok |-> TRUE]
    ELSE [h |-> h, ok |-> FALSE]

\* FindExpiration: the deadline of key through the index map.
FindExpiration(h, key) ==
    IF key \in DOMAIN h.index
    THEN [ts |-> h.items[h.index[key] + 1].expire_timestamp, ok |-> TRUE]
    ELSE [ts |-> 0, ok |-> FALSE]

\* KeyExpirationMinHeap.DeepCopy: an independent heap with the same items in
\* the same slots and the same index map.
HeapDeepCopy(h) ==
    [items |-> [i \in 1 .. Len(h.items) |-> h.items[i]],
     index |-> [key \in DOMAIN h.index |-> h.index[key]]]

(***************************************************************************)
(* KeyDataSpace: each method runs under s.mu, so each is one atomic step.  *)
(***************************************************************************)
NewKeyDataSpace == EmptyMap

Add(data, key, value) == MapSet(data, key, value)

Remove(data, key) == MapDelete(data, key)

Get(data, key) ==
    IF key \in DOMAIN data
    THEN [value |-> data[key], found |-> TRUE]
    ELSE [value |-> <<>>, found |-> FALSE]

\* An independent map holding every key-value pair of the original.
DeepCopy(data) == [key \in DOMAIN data |-> data[key]]

(***************************************************************************)
(* Time and TTL arithmetic.                                                *)
(***************************************************************************)
\* Milliseconds per second: the factor of expiration_sec*1000.
MsPerSec == 1000

\* Two's-complement wrap-around of Go's int64 arithmetic.
Wrap(x) == ((x + 2 ^ (IntBits - 1)) % (2 ^ IntBits)) - 2 ^ (IntBits - 1)

\* SET: expire_at_ts for an expiration_sec read at time t.
SetExpireAt(t, expiration_sec) ==
    IF expiration_sec = -1
    THEN MaxInt64
    ELSE Wrap(t + Wrap(expiration_sec * MsPerSec))

\* SETEXP: expire_at_ts for an expiration_sec read at time t.
SetexpExpireAt(t, expiration_sec) == Wrap(t + Wrap(expiration_sec * MsPerSec))

(***************************************************************************)
(* The snapshot file: encoding/binary in host byte order (little-endian).  *)
(* A file is a sequence of bytes; a read position is a byte offset.        *)
(***************************************************************************)
\* The n low-order bytes of the non-negative u, least significant first.
RECURSIVE ToBytes(_, _)
ToBytes(u, n) ==
    IF n = 0 THEN <<>> ELSE <<u % 256>> \o ToBytes(u \div 256, n - 1)

RECURSIVE FromBytes(_)
FromBytes(b) ==
    IF b = <<>> THEN 0 ELSE b[1] + 256 * FromBytes(Tail(b))

\* binary.Write(w, NATIVE_ENDIAN, uint32(n))
PutUint32(n) == ToBytes(n, 4)

\* binary.Read(f, NATIVE_ENDIAN, &uint32)
GetUint32(b) == FromBytes(b)

\* Bytes that carry the model's int64; the remaining ones of the eight are
\* the sign extension.
LowBytes == (IntBits + 7) \div 8

\* binary.Write(w, NATIVE_ENDIAN, int64(v)): eight bytes, two's complement.
PutInt64(v) ==
    LET u == IF v >= 0 THEN v ELSE v + 2 ^ (8 * LowBytes)
    IN  ToBytes(u, LowBytes) \o
        [i \in 1 .. (8 - LowBytes) |-> IF v < 0 THEN 255 ELSE 0]

\* binary.Read(f, NATIVE_ENDIAN, &int64)
GetInt64(b) ==
    LET u == FromBytes(SubSeq(b, 1, LowBytes))
    IN  IF u >= 2 ^ (8 * LowBytes - 1) THEN u - 2 ^ (8 * LowBytes) ELSE u

\* The bytes writeRdbEntry hands to the writer for one entry.
writeRdbEntry(key, data, exp_ts_ms) ==
    PutUint32(Len(key)) \o key \o PutUint32(Len(data)) \o data \o
    PutInt64(exp_ts_ms)

\* io.ReadFull of n bytes at offset pos, as binary.Read performs it: io.EOF
\* when no byte is left, io.ErrUnexpectedEOF when fewer than n are.
ReadFull(f, pos, n) ==
    IF n = 0 THEN [err |-> "nil", buf |-> <<>>, pos |-> pos]
    ELSE IF Len(f) - pos = 0 THEN [err |-> "EOF", buf |-> <<>>, pos |-> pos]
    ELSE IF Len(f) - pos < n
         THEN [err |-> "ErrUnexpectedEOF", buf |-> <<>>, pos |-> Len(f)]
         ELSE [err |-> "nil", buf |-> SubSeq(f, pos + 1, pos + n),
               pos |-> pos + n]

\* What readRdbEntry returns when a read fails with err.
ReadFailed(err, pos) ==
    [key |-> <<>>, data |-> <<>>, exp |-> -1, err |-> err, pos |-> pos]

readRdbEntry(f, pos) ==
    LET keyLen == ReadFull(f, pos, 4)
    IN  IF keyLen.err # "nil" THEN ReadFailed(keyLen.err, keyLen.pos) ELSE
    LET key_buf == ReadFull(f, keyLen.pos, GetUint32(keyLen.buf))
    IN  IF key_buf.err # "nil" THEN ReadFailed(key_buf.err, key_buf.pos) ELSE
    LET data_len == ReadFull(f, key_buf.pos, 4)
    IN  IF data_len.err # "nil" THEN ReadFailed(data_len.err, data_len.pos) ELSE
    LET data_buf == ReadFull(f, data_len.pos, GetUint32(data_len.buf))
    IN  IF data_buf.err # "nil" THEN ReadFailed(data_buf.err, data_buf.pos) ELSE
    LET expiration_timestamp_ms == ReadFull(f, data_buf.pos, 8)
    IN  IF expiration_timestamp_ms.err # "nil"
        THEN ReadFailed(expiration_timestamp_ms.err,
                        expiration_timestamp_ms.pos)
        ELSE [key  |-> key_buf.buf,
              data |-> data_buf.buf,
              exp  |-> GetInt64(expiration_timestamp_ms.buf),
              err  |-> "nil",
              pos  |-> expiration_timestamp_ms.pos]

\* The read loop of tryLoadRdbFile over the open file f, filling the stores.
RECURSIVE loadEntries(_, _, _, _)
loadEntries(f, pos, data, exp) ==
    LET e == readRdbEntry(f, pos)
    IN  IF e.err # "nil"
        THEN [data |-> data, exp |-> exp,
              err |-> IF e.err = "EOF" THEN "nil" ELSE e.err]
        ELSE loadEntries(f, e.pos, Add(data, e.key, e.data),
                         IF e.exp # NO_EXP_TS
                         THEN PushItem(exp, [key |-> e.key,
                                             expire_timestamp |-> e.exp])
                         ELSE exp)

\* tryLoadRdbFile on the file, into the stores data and exp; also yields the
\* file, which it creates when missing.  A path that is not a regular file
\* (a directory, say) is a file record with regular = FALSE.
tryLoadRdbFile(file, data, exp) ==
    IF ~file.exists
    THEN [data |-> data, exp |-> exp, err |-> "nil",
          file |-> [exists |-> TRUE, regular |-> TRUE, bytes |-> <<>>]]
    ELSE IF ~file.regular
    THEN [data |-> data, exp |-> exp, err |-> "path is not a regular file",
          file |-> file]
    ELSE IF Len(file.bytes) = 0
         THEN [data |-> data, exp |-> exp, err |-> "nil", file |-> file]
         ELSE LET l == loadEntries(file.bytes, 0, data, exp)
              IN  [data |-> l.data, exp |-> l.exp, err |-> l.err,
                   file |-> file]

(***************************************************************************)
(* The text protocol: strings are sequences of bytes.                      *)
(***************************************************************************)
\* "GET"
S_GET == <<71, 69, 84>>
\* "SET"
S_SET == <<83, 69, 84>>
\* "DEL"
S_DEL == <<68, 69, 76>>
\* "SETEXP"
S_SETEXP == <<83, 69, 84, 69, 88, 80>>
\* "ESC"
S_ESC == <<69, 83, 67>>
\* "PING"
S_PING == <<80, 73, 78, 71>>
\* "HELP"
S_HELP == <<72, 69, 76, 80>>
\* "OK"
S_OK == <<79, 75>>
\* "PONG"
S_PONG == <<80, 79, 78, 71>>
\* "cant help ya rn"
S_HelpText ==
    <<99, 97, 110, 116, 32, 104, 101, 108, 112, 32, 121, 97, 32, 114, 110>>
\* "closing connection."
S_Closing ==
    <<99, 108, 111, 115, 105, 110, 103, 32, 99, 111, 110, 110, 101, 99,
      116, 105, 111, 110, 46>>
\* "ERR: "
S_ErrPrefix == <<69, 82, 82, 58, 32>>
\* "empty command"
S_EmptyCommand == <<101, 109, 112, 116, 121, 32, 99, 111, 109, 109, 97, 110, 100>>
\* "command parsing error: "
S_ParsingError ==
    <<99, 111, 109, 109, 97, 110, 100, 32, 112, 97, 114, 115, 105, 110,
      103, 32, 101, 114, 114, 111, 114, 58, 32>>
\* "unknown command: "
S_UnknownCommand ==
    <<117, 110, 107, 110, 111, 119, 110, 32, 99, 111, 109, 109, 97, 110,
      100, 58, 32>>
\* "No such KEY is present: "
S_NoSuchKey ==
    <<78, 111, 32, 115, 117, 99, 104, 32, 75, 69, 89, 32, 105, 115, 32,
      112, 114, 101, 115, 101, 110, 116, 58, 32>>
\* "you tried to update expiration for a non existing key"
S_NoSuchExpiration ==
    <<121, 111, 117, 32, 116, 114, 105, 101, 100, 32, 116, 111, 32, 117,
      112, 100, 97, 116, 101, 32, 101, 120, 112, 105, 114, 97, 116, 105,
      111, 110, 32, 102, 111, 114, 32, 97, 32, 110, 111, 110, 32, 101, 120,
      105, 115, 116, 105, 110, 103, 32, 107, 101, 121>>
\* "missing token"
S_ErrNoToken ==
    <<109, 105, 115, 115, 105, 110, 103, 32, 116, 111, 107, 101, 110>>
\* "malformed token"
S_ErrMalformed ==
    <<109, 97, 108, 102, 111, 114, 109, 101, 100, 32, 116, 111, 107, 101,
      110>>
\* "strconv.ParseInt: parsing "
S_ParseIntParsing ==
    <<115, 116, 114, 99, 111, 110, 118, 46, 80, 97, 114, 115, 101, 73, 110,
      116, 58, 32, 112, 97, 114, 115, 105, 110, 103, 32>>
\* ": invalid syntax"
S_InvalidSyntax ==
    <<58, 32, 105, 110, 118, 97, 108, 105, 100, 32, 115, 121, 110, 116, 97,
      120>>
\* ": value out of range"
S_OutOfRange ==
    <<58, 32, 118, 97, 108, 117, 101, 32, 111, 117, 116, 32, 111, 102, 32,
      114, 97, 110, 103, 101>>

\* strings.TrimRight(line, "\r\n")
RECURSIVE TrimRight(_)
TrimRight(line) ==
    IF line # <<>> /\ line[Len(line)] \in {13, 10}
    THEN TrimRight(SubSeq(line, 1, Len(line) - 1))
    ELSE line

\* strings.ToUpper on ASCII letters.
ToUpper(s) ==
    [i \in 1 .. Len(s) |-> IF s[i] \in 97 .. 122 THEN s[i] - 32 ELSE s[i]]

\* A comparison that does not fold case.
EqualExact(s, t) == s = t

\* strings.EqualFold, on ASCII letters.
EqualFold(s, t) == ToUpper(s) = ToUpper(t)

\* A separator test that knows the space only.
isSpace(b) == b = 32

isSpaceTab(b) == b = 32 \/ b = 9

\* The first position at or after i (counting from 1) that holds no
\* separator, and the first at or after j that holds one.
RECURSIVE SkipSeparators(_, _)
SkipSeparators(s, i) ==
    IF i <= Len(s) /\ isSpaceTab(s[i]) THEN SkipSeparators(s, i + 1) ELSE i

RECURSIVE SkipBare(_, _)
SkipBare(s, j) ==
    IF j <= Len(s) /\ ~isSpaceTab(s[j]) THEN SkipBare(s, j + 1) ELSE j

\* The token s[i .. j-1] with the rest after the separators that follow it.
Token(s, i, j) ==
    [tok |-> SubSeq(s, i, j - 1),
     rest |-> SubSeq(s, SkipSeparators(s, j), Len(s)),
     err |-> "nil"]

NoToken(s, e) == [tok |-> <<>>, rest |-> s, err |-> e]

cutFirstTokenSpaceTab(s) ==
    LET i == SkipSeparators(s, 1)
    IN  IF i > Len(s) THEN NoToken(s, "ErrNoToken")
        ELSE Token(s, i, SkipBare(s, i))

\* cutFirstTokenSmart, quoted string: the position after the closing quote
\* found from j on, or 0 when the string is not closed.
\* A scan that ends at the first quote, escaped or not.
RECURSIVE ScanToQuote(_, _, _)
ScanToQuote(s, j, escaped) ==
    IF j > Len(s) THEN 0
    ELSE IF s[j] = 34 THEN j + 1
    ELSE ScanToQuote(s, j + 1, escaped)

RECURSIVE ScanQuoted(_, _, _)
ScanQuoted(s, j, escaped) ==
    IF j > Len(s) THEN 0
    ELSE IF escaped THEN ScanQuoted(s, j + 1, FALSE)
    ELSE IF s[j] = 92 THEN ScanQuoted(s, j + 1, TRUE)
    ELSE IF s[j] = 34 THEN j + 1
    ELSE ScanQuoted(s, j + 1, FALSE)

\* cutFirstTokenSmart, block: the position after the byte that brings both
\* depths back to zero, or 0 when the block is malformed.
RECURSIVE ScanBlock(_, _, _, _, _, _)
ScanBlock(s, j, braceDepth, bracketDepth, inString, escaped) ==
    IF j > Len(s) THEN 0
    ELSE IF inString
    THEN ScanBlock(s, j + 1, braceDepth, bracketDepth,
                   escaped \/ s[j] = 92 \/ s[j] # 34,
                   ~escaped /\ s[j] = 92)
    ELSE LET brace   == braceDepth + (IF s[j] = 123 THEN 1 ELSE 0)
                                   - (IF s[j] = 125 THEN 1 ELSE 0)
             bracket == bracketDepth + (IF s[j] = 91 THEN 1 ELSE 0)
                                     - (IF s[j] = 93 THEN 1 ELSE 0)
         IN  IF brace < 0 \/ bracket < 0 THEN 0
             ELSE IF brace = 0 /\ bracket = 0 THEN j + 1
             ELSE ScanBlock(s, j + 1, brace, bracket, s[j] = 34, FALSE)

cutFirstTokenSmart(s) ==
    LET i == SkipSeparators(s, 1)
    IN  IF i > Len(s) THEN NoToken(s, "ErrNoToken")
        ELSE IF s[i] = 34
        THEN LET j == ScanQuoted(s, i + 1, FALSE)
             IN  IF j = 0 THEN NoToken(s, "ErrMalformed") ELSE Token(s, i, j)
        ELSE IF s[i] \in {123, 91}
        THEN LET j == ScanBlock(s, i, 0, 0, FALSE, FALSE)
             IN  IF j = 0 THEN NoToken(s, "ErrMalformed") ELSE Token(s, i, j)
        ELSE Token(s, i, SkipBare(s, i))

\* err.Error() of the tokenizers' errors.
TokenError(e) == IF e = "ErrNoToken" THEN S_ErrNoToken ELSE S_ErrMalformed

\* strconv.ParseInt(s, 10, 64): an optional sign and decimal digits, within
\* the range of the integer type.
RECURSIVE Digits(_, _, _)
Digits(s, i, acc) ==
    IF i > Len(s) THEN acc
    ELSE Digits(s, i + 1, IF acc > MaxInt64 + 1 THEN acc
                          ELSE acc * 10 + (s[i] - 48))

ParseInt(s) ==
    LET signed == s # <<>> /\ s[1] \in {43, 45}
        body   == IF signed THEN Tail(s) ELSE s
        quoted == S_ParseIntParsing \o <<34>> \o s \o <<34>>
    IN  IF body = <<>> \/ \E i \in 1 .. Len(body) : body[i] \notin 48 .. 57
        THEN [val |-> 0, err |-> quoted \o S_InvalidSyntax]
        ELSE LET n == Digits(body, 1, 0)
                 v == IF signed /\ s[1] = 45 THEN -n ELSE n
             IN  IF v > MaxInt64 \/ v < -MaxInt64 - 1
                 THEN [val |-> IF v > 0 THEN MaxInt64 ELSE -MaxInt64 - 1,
                       err |-> quoted \o S_OutOfRange]
                 ELSE [val |-> v, err |-> <<>>]

\* What a handler makes of its arguments before it calls a store: the
\* arguments, a constant result, or the error it returns.
Parsed(kind, key, value, ttl) ==
    [kind |-> kind, key |-> key, value |-> value, ttl |-> ttl, msg |-> <<>>]
Failed(msg) ==
    [kind |-> "err", key |-> <<>>, value |-> <<>>, ttl |-> 0, msg |-> msg]
ParsingError(e) == Failed(S_ParsingError \o e)

GET_Args(args) ==
    LET key == cutFirstTokenSpaceTab(args)
    IN  IF key.err # "nil" THEN ParsingError(TokenError(key.err))
        ELSE Parsed("GET", key.tok, <<>>, 0)

SET_Args(args) ==
    LET key == cutFirstTokenSpaceTab(args)
    IN  IF key.err # "nil" THEN ParsingError(TokenError(key.err)) ELSE
    LET data == cutFirstTokenSmart(key.rest)
    IN  IF data.err # "nil" THEN ParsingError(TokenError(data.err)) ELSE
        IF data.rest = <<>> THEN Parsed("SET", key.tok, data.tok, -1) ELSE
    LET exp == cutFirstTokenSpaceTab(data.rest)
    IN  IF exp.err # "nil" THEN ParsingError(TokenError(exp.err)) ELSE
    LET expiration_sec == ParseInt(exp.tok)
    IN  IF expiration_sec.err # <<>> THEN ParsingError(expiration_sec.err)
        ELSE Parsed("SET", key.tok, data.tok, expiration_sec.val)

DEL_Args(args) ==
    LET key == cutFirstTokenSpaceTab(args)
    IN  IF key.err # "nil" THEN ParsingError(TokenError(key.err))
        ELSE Parsed("DEL", key.tok, <<>>, 0)

SETEXP_Args(args) ==
    LET key == cutFirstTokenSpaceTab(args)
    IN  IF key.err # "nil" THEN ParsingError(TokenError(key.err)) ELSE
        IF key.rest = <<>> THEN Parsed("SETEXP", key.tok, <<>>, 0) ELSE
    LET exp == cutFirstTokenSpaceTab(key.rest)
    IN  IF exp.err # "nil" THEN ParsingError(TokenError(exp.err)) ELSE
    LET expiration_sec == ParseInt(exp.tok)
    IN  IF expiration_sec.err # <<>> THEN ParsingError(expiration_sec.err)
        ELSE Parsed("SETEXP", key.tok, <<>>, expiration_sec.val)

\* The handlers that touch no store: ESC, PING, HELP.
Constant(res) == Parsed("const", <<>>, res, 0)

\* cmdHandlers[strings.ToUpper(cmd)], applied as far as the first store call.
executeCommand(cmd, args) ==
    LET u == ToUpper(cmd)
    IN  IF u = S_GET THEN GET_Args(args)
        ELSE IF u = S_SET THEN SET_Args(args)
        ELSE IF u = S_DEL THEN DEL_Args(args)
        ELSE IF u = S_SETEXP THEN SETEXP_Args(args)
        ELSE IF u = S_ESC THEN Constant(<<>>)
        ELSE IF u = S_PING THEN Constant(S_PONG)
        ELSE IF u = S_HELP THEN Constant(S_HelpText)
        ELSE Failed(S_UnknownCommand \o cmd)

tryParseExecuteCommand(command_raw) ==
    LET cmd == cutFirstTokenSpaceTab(command_raw)
    IN  IF cmd.err # "nil" THEN ParsingError(TokenError(cmd.err))
        ELSE executeCommand(cmd.tok, cmd.rest)

\* handleLine without the test for an empty line.
handleLineNoSkip(raw) ==
    LET line == TrimRight(raw)
        cmdTok == cutFirstTokenSpaceTab(line)
    IN  IF cmdTok.err # "nil" THEN Parsed("empty", <<>>, <<>>, 0)
        ELSE IF EqualFold(cmdTok.tok, S_ESC) THEN Parsed("esc", <<>>, <<>>, 0)
        ELSE tryParseExecuteCommand(line)

\* The loop body of handleClientServerRoutine on the line read, as far as
\* the first store call: the line is skipped, answered at once, closes the
\* connection, or goes to a handler.
handleLine(raw) ==
    LET line == TrimRight(raw)
    IN  IF line = <<>> THEN Parsed("skip", <<>>, <<>>, 0) ELSE
    LET cmdTok == cutFirstTokenSpaceTab(line)
    IN  IF cmdTok.err # "nil" THEN Parsed("empty", <<>>, <<>>, 0)
        ELSE IF EqualFold(cmdTok.tok, S_ESC) THEN Parsed("esc", <<>>, <<>>, 0)
        ELSE tryParseExecuteCommand(line)

(***************************************************************************)
(* State.                                                                  *)
(***************************************************************************)
VARIABLES
    keyDataSpace,       \* the Keyspace (global keyDataSpace.data)
    keyExpirations,     \* the Expiration Index (global keyExpirations)
    now,                \* time.Now().UnixMilli()
    pc,                 \* per connection: the handler's position
    cur,                \* per connection: the command being executed
    reply,              \* per connection: the last response line
    last,               \* per connection: history of the last completed
                        \* SET or DEL that no later command has superseded
    issued,             \* number of commands received so far
    rpc,                \* the reaper's position in its loop
    keyExp,             \* the reaper's local keyExp (result of Peek)
    spc,                \* the snapshot goroutine's position
    copyOfKeyDataSpace,         \* its local copy of the Keyspace
    copyOfKeyExpirationSpace,   \* its local copy of the Expiration Index
    todo,               \* saveRDBFile: keys the range loop has yet to visit
    writer,             \* saveRDBFile: bytes held by the bufio.Writer
    rdbFile,            \* the snapshot file rdb.bin
    restored,           \* a fresh process started on rdbFile: its stores,
                        \* what tryLoadRdbFile returned to it, and whether
                        \* main has gone on to serve
    quiet,              \* history: the last snapshot began in a quiescent
                        \* state and no store has changed since
    reached,            \* history: some deadline in the Expiration Index
                        \* has been <= now
    rdbFileMutex,       \* the sync.RWMutex guarding the snapshot file
    callPc,             \* per concurrent caller of saveRDBFile or
                        \* tryLoadRdbFile: its position in the call
    inp,                \* history: the non-empty request lines read from
                        \* the observed connection, in order
    out,                \* history: the response lines written to it
    mu,                 \* the sync.RWMutex of each store
    locks,              \* per goroutine: the locks it has requested and
                        \* not yet released, innermost last
    printer,            \* the connections inside printMemoryStatus
    clonedData,         \* KeyDataSpace.DeepCopy: its local clonedData
    rangeLeft,          \* KeyDataSpace.DeepCopy: keys its range loop has
                        \* yet to visit
    seen,               \* history: the contents the Keyspace has had
                        \* since the DeepCopy under way was called
    tokenLine,          \* the string handed to a tokenizer
    tokenCut,           \* what the tokenizer returned for it
    evicted,            \* history: the entries the reaper has evicted
                        \* since it last slept, in order
    last_rdb_snapshot_ts,   \* the global last_rdb_snapshot_ts
    saveErr,            \* the error the last saveRDBFile returned, which
                        \* rdbSnapshotGoRoutine drops
    completed           \* history, per connection: the last SET it has
                        \* answered

snapVars == <<spc, copyOfKeyDataSpace, copyOfKeyExpirationSpace, todo, writer,
              rdbFile, restored, quiet, reached>>

lockVars == <<rdbFileMutex, callPc>>
connVars == <<inp, out>>
mutexVars == <<mu, locks, printer, clonedData, rangeLeft, seen>>
tokVars == <<tokenLine, tokenCut>>
persistVars == <<last_rdb_snapshot_ts, saveErr>>
auxVars == <<tokVars, evicted, persistVars, completed>>
otherVars == <<snapVars, lockVars, connVars, mutexVars, auxVars>>

vars == <<keyDataSpace, keyExpirations, now, pc, cur, reply, last, issued,
          rpc, keyExp, otherVars>>

\* Connections, keys, values and TTL arguments of the concurrent runs.
Clients == {1, 2}
Keys == {<<97>>, <<98, 99>>}
\* The value each connection writes.
ClientValue(c) == IF c = 1 THEN <<120>> ELSE <<121, 122>>
TTLs == {-1, 1}
\* Number of clock ticks (one second each) and of commands in a run.
MaxTicks == 1
MaxCmds == 3
\* The clock's reading when the server starts.
StartTime == 5 * MsPerSec

\* rdb.bin before the first snapshot, and the stores of a process not started.
NoFile == [exists |-> FALSE, regular |-> TRUE, bytes |-> <<>>]
NotRestored == [ok |-> FALSE, data |-> NewKeyDataSpace,
                exp |-> NewKeyExpirationMinHeap, err |-> "nil",
                serving |-> FALSE]

\* sync.RWMutex: the zero value, and its read side.  RLock blocks while a
\* writer holds the lock; any number of readers hold it together.
\* A pending Lock keeps new readers out.
NewRWMutex == [readers |-> 0, writer |-> FALSE, pending |-> 0]
CanRLock(m) == ~m.writer /\ m.pending = 0
RLock(m) == [m EXCEPT !.readers = @ + 1]
RUnlock(m) == [m EXCEPT !.readers = @ - 1]
\* The write side: Lock announces itself, waits for the readers and the
\* writer inside to leave, and then holds the lock alone.
LockPending(m) == [m EXCEPT !.pending = @ + 1]
\* A Lock that does not wait for the readers.
CanLockDespiteReaders(m) == ~m.writer
CanLock(m) == ~m.writer /\ m.readers = 0
Lock(m) == [m EXCEPT !.writer = TRUE, !.pending = @ - 1]
Unlock(m) == [m EXCEPT !.writer = FALSE]

\* The goroutines besides the connection handlers.
ReaperTask == 3
SnapTask == 4
Tasks == Clients \cup {ReaperTask, SnapTask}
StoreLocks == {"ks", "ei"}

\* Concurrent callers of saveRDBFile and tryLoadRdbFile.
Callers == {1, 2, 3}

NoCmd == [op |-> "none", key |-> <<>>, value |-> <<>>, ts |-> 0,
          quiet |-> FALSE]
NoReply == [err |-> FALSE, res |-> <<>>]
ReplyOK == [err |-> FALSE, res |-> <<79, 75>>]
\* The error's text taken for a result.
ReplyAsResult(msg) == [err |-> FALSE, res |-> msg]

\* No tokenizer has been called.
NotCut == [fn |-> "none", tok |-> <<>>, rest |-> <<>>, err |-> "nil"]

\* A handler returned the error whose text is msg.
ReplyERR(msg) == [err |-> TRUE, res |-> msg]

\* The line the connection handler writes for a handler's result res: an
\* empty result is acknowledged with OK.
Respond(res) == [err |-> FALSE, res |-> IF res = <<>> THEN <<79, 75>> ELSE res]

\* The bytes of the response line, without its line feed.
ResponseLine(r) == IF r.err THEN S_ErrPrefix \o r.res ELSE r.res

\* The server as it starts, its stores and the snapshot file apart.
InitButStores ==
    /\ now = StartTime
    /\ pc = [c \in Clients |-> "idle"]
    /\ cur = [c \in Clients |-> NoCmd]
    /\ reply = [c \in Clients |-> NoReply]
    /\ last = [c \in Clients |-> NoCmd]
    /\ issued = 0
    /\ rpc = "Peek"
    /\ keyExp = ZeroKeyExpiration
    /\ spc = "Wait"
    /\ copyOfKeyDataSpace = NewKeyDataSpace
    /\ copyOfKeyExpirationSpace = NewKeyExpirationMinHeap
    /\ todo = {}
    /\ writer = <<>>
    /\ restored = NotRestored
    /\ quiet = FALSE
    /\ reached = FALSE
    /\ rdbFileMutex = NewRWMutex
    /\ callPc = [i \in Callers |-> "out"]
    /\ inp = <<>>
    /\ out = <<>>
    /\ mu = [l \in StoreLocks |-> NewRWMutex]
    /\ locks = [t \in Tasks |-> <<>>]
    /\ printer = {}
    /\ clonedData = NewKeyDataSpace
    /\ rangeLeft = {}
    /\ seen = {}
    /\ tokenCut = NotCut
    /\ evicted = <<>>
    /\ last_rdb_snapshot_ts = StartTime
    /\ saveErr = "nil"
    /\ completed = [c \in Clients |-> NoCmd]

\* The server as it starts, the snapshot file apart: initDataStructures
\* builds the two stores empty.
InitButFile ==
    /\ keyDataSpace = NewKeyDataSpace
    /\ keyExpirations = NewKeyExpirationMinHeap
    /\ tokenLine = <<>>
    /\ InitButStores

Init ==
    /\ InitButFile
    /\ rdbFile = NoFile

serverVars == <<keyDataSpace, now, pc, cur, reply, last, issued, rpc, keyExp,
                otherVars>>

(***************************************************************************)
(* The Expiration Index alone: any sequence of its public operations.      *)
(***************************************************************************)
HeapDeadlines == 1 .. MaxDeadline

\* Key k occupies some slot of the heap's array.
Stored(h, k) == \E i \in 1 .. Len(h.items) : h.items[i].key = k

HPushItem(k, d) ==
    /\ keyExpirations' = PushItem(keyExpirations,
                                  [key |-> k, expire_timestamp |-> d])
    /\ UNCHANGED serverVars

HPopMin ==
    /\ keyExpirations' = PopMin(keyExpirations).h
    /\ UNCHANGED serverVars

HRemove(k) ==
    /\ keyExpirations' = HeapRemove(keyExpirations, k).h
    /\ UNCHANGED serverVars

HUpdateExpiration(k, d) ==
    /\ keyExpirations' = UpdateExpiration(keyExpirations, k, d).h
    /\ UNCHANGED serverVars

HeapNext ==
    \/ \E k \in HeapKeys, d \in HeapDeadlines : HPushItem(k, d)
    \/ HPopMin
    \/ \E k \in HeapKeys : HRemove(k)
    \/ \E k \in HeapKeys, d \in HeapDeadlines : HUpdateExpiration(k, d)

HeapSpec == Init /\ [][HeapNext]_vars

(***************************************************************************)
(* Connection handlers.  A handler executes one command at a time; the     *)
(* store methods it calls are the atomic steps.  Nothing but the store     *)
(* locks is held, so other tasks run between two store calls.              *)
(***************************************************************************)
\* Another connection is executing a command on key k.
OtherBusyOn(c, k) ==
    \E o \in Clients \ {c} : pc[o] # "idle" /\ cur[o].key = k

\* History bookkeeping when connection c receives command op on key k:
\* a remembered SET of k is superseded by any command on k, a remembered
\* DEL of k by a SET of k.
Superseded(l, op, k) ==
    /\ l.key = k
    /\ \/ l.op = "SET"
       \/ l.op = "DEL" /\ op = "SET"

Received(c, op, k) ==
    /\ issued < MaxCmds
    /\ issued' = issued + 1
    /\ last' = [o \in Clients |->
                  IF Superseded(last[o], op, k) \/ (o = c /\ last[o].op = "SET")
                  THEN NoCmd ELSE last[o]]

\* The other connections' SETs of k in progress are no longer undisturbed.
Disturb(c, k, mine) ==
    [o \in Clients |->
        IF o = c THEN mine
        ELSE IF pc[o] # "idle" /\ cur[o].key = k
             THEN [cur[o] EXCEPT !.quiet = FALSE]
             ELSE cur[o]]

\* SET: parse the arguments and compute expire_at_ts from the clock.
SET_Parse(c, k, v, ttl) ==
    /\ pc[c] = "idle"
    /\ Received(c, "SET", k)
    /\ cur' = Disturb(c, k, [op |-> "SET", key |-> k, value |-> v,
                             ts |-> SetExpireAt(now, ttl),
                             quiet |-> ~OtherBusyOn(c, k)])
    /\ pc' = [pc EXCEPT ![c] = "SET_Add"]
    /\ reply' = [reply EXCEPT ![c] = NoReply]
    /\ UNCHANGED <<keyDataSpace, keyExpirations, now, rpc, keyExp>>

\* SET: keyDataSpace.Add(key, data)
SET_Add(c) ==
    /\ pc[c] = "SET_Add"
    /\ keyDataSpace' = Add(keyDataSpace, cur[c].key, cur[c].value)
    /\ pc' = [pc EXCEPT ![c] = "SET_PushItem"]
    /\ UNCHANGED <<keyExpirations, now, cur, reply, last, issued, rpc, keyExp>>

\* SET: keyExpirations.PushItem(...), then the reply OK.
SET_PushItem(c) ==
    /\ pc[c] = "SET_PushItem"
    /\ keyExpirations' = PushItem(keyExpirations,
                                  [key |-> cur[c].key,
                                   expire_timestamp |-> cur[c].ts])
    /\ pc' = [pc EXCEPT ![c] = "idle"]
    /\ reply' = [reply EXCEPT ![c] = ReplyOK]
    /\ last' = [last EXCEPT ![c] = IF cur[c].quiet THEN cur[c] ELSE NoCmd]
    /\ cur' = [cur EXCEPT ![c] = NoCmd]
    /\ UNCHANGED <<keyDataSpace, now, issued, rpc, keyExp>>

\* DEL: parse, then keyDataSpace.Remove(key)
DEL_Remove(c, k) ==
    /\ pc[c] = "idle"
    /\ Received(c, "DEL", k)
    /\ keyDataSpace' = Remove(keyDataSpace, k)
    /\ cur' = Disturb(c, k, [NoCmd EXCEPT !.op = "DEL", !.key = k])
    /\ pc' = [pc EXCEPT ![c] = "DEL_HeapRemove"]
    /\ reply' = [reply EXCEPT ![c] = NoReply]
    /\ UNCHANGED <<keyExpirations, now, rpc, keyExp>>

\* DEL: keyExpirations.Remove(key), then the reply OK.
DEL_HeapRemove(c) ==
    /\ pc[c] = "DEL_HeapRemove"
    /\ keyExpirations' = HeapRemove(keyExpirations, cur[c].key).h
    /\ pc' = [pc EXCEPT ![c] = "idle"]
    /\ reply' = [reply EXCEPT ![c] = ReplyOK]
    /\ last' = [last EXCEPT ![c] = cur[c]]
    /\ cur' = [cur EXCEPT ![c] = NoCmd]
    /\ UNCHANGED <<keyDataSpace, now, issued, rpc, keyExp>>

\* GET: parse, keyDataSpace.Get(key), reply the value or the miss.
GET(c, k) ==
    /\ pc[c] = "idle"
    /\ Received(c, "GET", k)
    /\ LET g == Get(keyDataSpace, k)
       IN  reply' = [reply EXCEPT ![c] =
                        IF g.found THEN Respond(g.value)
                        ELSE ReplyERR(S_NoSuchKey \o k)]
    /\ cur' = Disturb(c, k, NoCmd)
    /\ UNCHANGED <<keyDataSpace, keyExpirations, now, pc, rpc, keyExp>>

\* SETEXP: parse the arguments and compute expire_at_ts from the clock.
SETEXP_Parse(c, k, ttl) ==
    /\ pc[c] = "idle"
    /\ Received(c, "SETEXP", k)
    /\ cur' = Disturb(c, k, [NoCmd EXCEPT !.op = "SETEXP", !.key = k,
                                          !.ts = SetexpExpireAt(now, ttl)])
    /\ pc' = [pc EXCEPT ![c] = "SETEXP_Update"]
    /\ reply' = [reply EXCEPT ![c] = NoReply]
    /\ UNCHANGED <<keyDataSpace, keyExpirations, now, rpc, keyExp>>

\* SETEXP that creates the index entry of a key that has none.
SETEXP_Upsert(c) ==
    /\ pc[c] = "SETEXP_Update"
    /\ keyExpirations' = PushItem(keyExpirations,
                              [key |-> cur[c].key,
                               expire_timestamp |-> cur[c].ts])
    /\ reply' = [reply EXCEPT ![c] = ReplyOK]
    /\ pc' = [pc EXCEPT ![c] = "idle"]
    /\ cur' = [cur EXCEPT ![c] = NoCmd]
    /\ UNCHANGED <<keyDataSpace, now, last, issued, rpc, keyExp>>

\* SETEXP that also stores an empty value for the key it updates.
SETEXP_Rewrite(c) ==
    /\ pc[c] = "SETEXP_Update"
    /\ LET u == UpdateExpiration(keyExpirations, cur[c].key, cur[c].ts)
       IN  /\ keyExpirations' = u.h
           /\ keyDataSpace' = IF u.ok
                               THEN Add(keyDataSpace, cur[c].key, <<>>)
                               ELSE keyDataSpace
           /\ reply' = [reply EXCEPT ![c] =
                            IF u.ok THEN ReplyOK
                            ELSE ReplyERR(S_NoSuchExpiration)]
    /\ pc' = [pc EXCEPT ![c] = "idle"]
    /\ cur' = [cur EXCEPT ![c] = NoCmd]
    /\ UNCHANGED <<now, last, issued, rpc, keyExp>>

\* SETEXP: keyExpirations.UpdateExpiration(key, expire_at_ts), then the reply.
SETEXP_Update(c) ==
    /\ pc[c] = "SETEXP_Update"
    /\ LET u == UpdateExpiration(keyExpirations, cur[c].key, cur[c].ts)
       IN  /\ keyExpirations' = u.h
           /\ reply' = [reply EXCEPT ![c] =
                            IF u.ok THEN ReplyOK
                            ELSE ReplyERR(S_NoSuchExpiration)]
    /\ pc' = [pc EXCEPT ![c] = "idle"]
    /\ cur' = [cur EXCEPT ![c] = NoCmd]
    /\ UNCHANGED <<keyDataSpace, now, last, issued, rpc, keyExp>>

(***************************************************************************)
(* The reaper: handleKeysExpirationGoRoutine.                              *)
(***************************************************************************)
\* keyExp, has_elements := keyExpirations.Peek()
Reaper_Peek ==
    /\ rpc = "Peek"
    /\ LET p == Peek(keyExpirations)
       IN  /\ keyExp' = p.item
           /\ rpc' = IF p.ok THEN "Check" ELSE "Sleep"
    /\ UNCHANGED <<keyDataSpace, keyExpirations, now, pc, cur, reply, last,
                   issued>>

\* A reaper that evicts the root whatever the clock says.
Reaper_CheckNoClock ==
    /\ rpc = "Check"
    /\ rpc' = "Remove"
    /\ UNCHANGED <<keyDataSpace, keyExpirations, now, pc, cur, reply, last,
                   issued, keyExp>>

\* if time.Now().UnixMilli() >= keyExp.expire_timestamp
Reaper_Check ==
    /\ rpc = "Check"
    /\ IF now >= keyExp.expire_timestamp
       THEN rpc' = "Remove" /\ keyExp' = keyExp
       ELSE rpc' = "Sleep" /\ keyExp' = ZeroKeyExpiration
    /\ UNCHANGED <<keyDataSpace, keyExpirations, now, pc, cur, reply, last,
                   issued>>

\* keyDataSpace.Remove(keyExp.key)
Reaper_Remove ==
    /\ rpc = "Remove"
    /\ keyDataSpace' = Remove(keyDataSpace, keyExp.key)
    /\ rpc' = "PopMin"
    /\ UNCHANGED <<keyExpirations, now, pc, cur, reply, last, issued, keyExp>>

\* keyExpirations.PopMin(), then the next iteration.
Reaper_PopMin ==
    /\ rpc = "PopMin"
    /\ keyExpirations' = PopMin(keyExpirations).h
    /\ rpc' = "Peek"
    /\ keyExp' = ZeroKeyExpiration
    /\ UNCHANGED <<keyDataSpace, now, pc, cur, reply, last, issued>>

\* time.Sleep(3 * time.Second); continue
Reaper_Sleep ==
    /\ rpc = "Sleep"
    /\ rpc' = "Peek"
    /\ UNCHANGED <<keyDataSpace, keyExpirations, now, pc, cur, reply, last,
                   issued, keyExp>>

Reaper ==
    \/ Reaper_Peek
    \/ Reaper_Check
    \/ Reaper_Remove
    \/ Reaper_PopMin
    \/ Reaper_Sleep

\* The clock advances by one second.
Tick ==
    /\ now < StartTime + MaxTicks * MsPerSec
    /\ now' = now + MsPerSec
    /\ UNCHANGED <<keyDataSpace, keyExpirations, pc, cur, reply, last, issued,
                   rpc, keyExp>>

\* The server without its snapshot goroutine: connections, reaper, clock.
Next ==
    \/ \E c \in Clients, k \in Keys, ttl \in TTLs :
          SET_Parse(c, k, ClientValue(c), ttl) /\ UNCHANGED otherVars
    \/ \E c \in Clients : SET_Add(c) /\ UNCHANGED otherVars
    \/ \E c \in Clients : SET_PushItem(c) /\ UNCHANGED otherVars
    \/ \E c \in Clients, k \in Keys : DEL_Remove(c, k) /\ UNCHANGED otherVars
    \/ \E c \in Clients : DEL_HeapRemove(c) /\ UNCHANGED otherVars
    \/ \E c \in Clients, k \in Keys : GET(c, k) /\ UNCHANGED otherVars
    \/ \E c \in Clients, k \in Keys, ttl \in TTLs :
          SETEXP_Parse(c, k, ttl) /\ UNCHANGED otherVars
    \/ \E c \in Clients : SETEXP_Update(c) /\ UNCHANGED otherVars
    \/ Reaper_Peek /\ UNCHANGED otherVars
    \/ Reaper_Check /\ UNCHANGED otherVars
    \/ Reaper_Remove /\ UNCHANGED otherVars
    \/ Reaper_PopMin /\ UNCHANGED otherVars
    \/ Reaper_Sleep /\ UNCHANGED otherVars
    \/ Tick /\ UNCHANGED otherVars

Spec == Init /\ [][Next]_vars

(***************************************************************************)
(* The same server with the SETs each connection has answered remembered.  *)
(***************************************************************************)
setFrame == <<snapVars, lockVars, connVars, mutexVars, tokVars, evicted,
              persistVars>>

\* History: the SET that connection c answers on this step.
Set_PushItem(c) ==
    /\ SET_PushItem(c)
    /\ completed' = [completed EXCEPT ![c] = cur[c]]
    /\ UNCHANGED setFrame

SetNext ==
    \/ \E c \in Clients, k \in Keys, ttl \in TTLs :
          SET_Parse(c, k, ClientValue(c), ttl) /\ UNCHANGED otherVars
    \/ \E c \in Clients : SET_Add(c) /\ UNCHANGED otherVars
    \/ \E c \in Clients : Set_PushItem(c)
    \/ Reaper_Peek /\ UNCHANGED otherVars
    \/ Reaper_Check /\ UNCHANGED otherVars
    \/ Reaper_Remove /\ UNCHANGED otherVars
    \/ Reaper_PopMin /\ UNCHANGED otherVars
    \/ Reaper_Sleep /\ UNCHANGED otherVars
    \/ Tick /\ UNCHANGED otherVars

SetSpec == Init /\ [][SetNext]_vars

(***************************************************************************)
(* One connection sending SET and SETEXP with the non-negative TTLs that   *)
(* strconv.ParseInt accepts, up to the largest int64.                      *)
(***************************************************************************)
LargeTTLs == {0, 1, MaxInt64 \div MsPerSec, MaxInt64}

TtlNext ==
    \/ \E k \in Keys, ttl \in LargeTTLs :
          SET_Parse(1, k, ClientValue(1), ttl) /\ UNCHANGED otherVars
    \/ SET_Add(1) /\ UNCHANGED otherVars
    \/ SET_PushItem(1) /\ UNCHANGED otherVars
    \/ \E k \in Keys, ttl \in LargeTTLs :
          SETEXP_Parse(1, k, ttl) /\ UNCHANGED otherVars
    \/ SETEXP_Update(1) /\ UNCHANGED otherVars
    \/ Reaper_Peek /\ UNCHANGED otherVars
    \/ Reaper_Check /\ UNCHANGED otherVars
    \/ Reaper_Remove /\ UNCHANGED otherVars
    \/ Reaper_PopMin /\ UNCHANGED otherVars
    \/ Reaper_Sleep /\ UNCHANGED otherVars
    \/ Tick /\ UNCHANGED otherVars

TtlSpec == Init /\ [][TtlNext]_vars

(***************************************************************************)
(* Fairness: the Go scheduler runs every runnable goroutine, so the reaper *)
(* keeps looping and a handler that has received a command finishes it.    *)
(* Clients are free never to send another command, and the clock is not    *)
(* forced.                                                                 *)
(***************************************************************************)
FinishCommand(c) ==
    \/ SET_Add(c)
    \/ SET_PushItem(c)
    \/ DEL_HeapRemove(c)
    \/ SETEXP_Update(c)

FairSpec ==
    /\ Spec
    /\ WF_vars(Reaper /\ UNCHANGED otherVars)
    /\ \A c \in Clients : WF_vars(FinishCommand(c) /\ UNCHANGED otherVars)

(***************************************************************************)
(* Properties of the concurrent server.                                    *)
(***************************************************************************)
InKeyspace(k) == k \in DOMAIN keyDataSpace
InIndex(k) == k \in DOMAIN keyExpirations.index

\* Key k is in the Expiration Index with a deadline that has passed.
ExpiredInIndex(k) ==
    LET f == FindExpiration(keyExpirations, k) IN f.ok /\ f.ts <= now

\* Key k is in the Expiration Index with a deadline still to come.
FreshInIndex(k) ==
    LET f == FindExpiration(keyExpirations, k) IN f.ok /\ f.ts > now

\* Some connection is executing a SET of key k.
SetInProgress(k) ==
    \E c \in Clients : pc[c] \in {"SET_Add", "SET_PushItem"} /\ cur[c].key = k

\* C1: SET and DEL are atomic across the two stores: whenever the Keyspace
\* shows the change of a SET or DEL of key K that has not yet replied (other
\* tasks can read the stores in that state), the Expiration Index already
\* reflects that command: it holds K with the SET's deadline, or no longer
\* holds K after the DEL.
C1_AtomicAcrossStores ==
    \A c \in Clients :
        /\ (/\ pc[c] = "SET_PushItem"
            /\ Get(keyDataSpace, cur[c].key) =
                   [value |-> cur[c].value, found |-> TRUE])
           => FindExpiration(keyExpirations, cur[c].key) =
                  [ts |-> cur[c].ts, ok |-> TRUE]
        /\ (pc[c] = "DEL_HeapRemove" /\ ~InKeyspace(cur[c].key))
           => ~InIndex(cur[c].key)

\* C2: the reaper never evicts a key whose deadline has not yet passed: when
\* it removes a key from the Keyspace, the deadline that key has in the
\* Expiration Index at that moment is <= now, and the entry it pops from the
\* Expiration Index has a deadline <= now.
C2_ReaperStepExpired ==
    /\ (Reaper_Remove /\ InKeyspace(keyExp.key) /\ InIndex(keyExp.key))
       => ExpiredInIndex(keyExp.key)
    /\ (Reaper_PopMin /\ Peek(keyExpirations).ok)
       => Peek(keyExpirations).item.expire_timestamp <= now

C2_ReaperNeverEvictsEarly == [][C2_ReaperStepExpired]_vars

\* C3: eviction liveness under fairness of the reaper: a key that is in the
\* Expiration Index with a deadline <= now is eventually absent from both the
\* Keyspace and the Expiration Index, unless it is re-SET (a SET of it is
\* under way) or given a deadline in the future afterwards.  The obligation
\* is taken on in states where no connection is executing a command.
C3_EvictionLiveness ==
    \A k \in Keys :
        (ExpiredInIndex(k) /\ \A c \in Clients : pc[c] = "idle") ~>
            \/ ~InKeyspace(k) /\ ~InIndex(k)
            \/ FreshInIndex(k)
            \/ SetInProgress(k)

\* C4: lazy expiration: a GET of a key whose deadline in the Expiration Index
\* is <= now replies with the miss, never with the value.
C4_GetStepLazy ==
    \A c \in Clients, k \in Keys :
        (GET(c, k) /\ ExpiredInIndex(k)) => reply'[c].err

C4_GetNeverReturnsExpired == [][C4_GetStepLazy]_vars

\* C5: deletion propagation: once DEL K has replied OK and no SET K has been
\* received since that reply, then whenever no SET K is under way and the
\* reaper is not in the middle of an eviction, K is not left in one store
\* only (the weakest reading: K is absent from both stores, or a SET that
\* overlapped the DEL has put it into both).
C5_DeletionPropagation ==
    \A c \in Clients :
        (/\ last[c].op = "DEL"
         /\ ~SetInProgress(last[c].key)
         /\ rpc # "PopMin")
        => (InKeyspace(last[c].key) <=> InIndex(last[c].key))

\* C6: read-your-writes: when a connection's SET K V (no TTL, or a deadline
\* still in the future) has replied OK, no other connection has had a command
\* on K since that SET was received, and the connection's next command is
\* GET K, the reply is V.
C6_GetStepReadsOwnWrite ==
    \A c \in Clients, k \in Keys :
        (/\ GET(c, k)
         /\ last[c].op = "SET"
         /\ last[c].key = k
         /\ last[c].ts > now)
        => reply'[c] = Respond(last[c].value)

C6_ReadYourWrites == [][C6_GetStepReadsOwnWrite]_vars

(***************************************************************************)
(* The snapshot goroutine (rdbSnapshotGoRoutine, saveRDBFile) and the       *)
(* start of a fresh process on the snapshot file (initDataStructures).     *)
(***************************************************************************)
baseVars == <<keyDataSpace, keyExpirations, now, pc, cur, reply, last, issued,
              rpc, keyExp>>

\* No connection is executing a command and the reaper is between two
\* iterations of its loop.
Quiescent ==
    /\ \A c \in Clients : pc[c] = "idle"
    /\ rpc \in {"Peek", "Sleep"}

\* The ticker fires: copyOfKeyDataSpace := keyDataSpace.DeepCopy()
Snap_DeepCopyData ==
    /\ spc = "Wait"
    /\ copyOfKeyDataSpace' = DeepCopy(keyDataSpace)
    /\ spc' = "DeepCopyExp"
    /\ quiet' = Quiescent
    /\ restored' = NotRestored
    /\ UNCHANGED <<baseVars, lockVars, connVars, auxVars,
                   copyOfKeyExpirationSpace, todo, writer, rdbFile,
                   reached>>

\* copyOfKeyExpirationSpace := keyExpirations.DeepCopy()
Snap_DeepCopyExp ==
    /\ spc = "DeepCopyExp"
    /\ copyOfKeyExpirationSpace' = HeapDeepCopy(keyExpirations)
    /\ spc' = "Open"
    /\ UNCHANGED <<baseVars, lockVars, connVars, auxVars,
                   copyOfKeyDataSpace, todo, writer, rdbFile,
                   restored, quiet, reached>>

\* saveRDBFile: take the read lock, open the file truncating it, start the
\* buffered writer and the range over dataSnapshot.data; when the open fails,
\* return the error (the deferred RUnlock runs), which rdbSnapshotGoRoutine
\* drops before it sets last_rdb_snapshot_ts.
Snap_Open ==
    /\ spc = "Open"
    /\ CanRLock(rdbFileMutex)
    /\ IF rdbFile.exists /\ ~rdbFile.regular
       THEN /\ spc' = "Wait"
            /\ saveErr' = "open"
            /\ last_rdb_snapshot_ts' = now
            /\ UNCHANGED <<rdbFile, writer, todo, rdbFileMutex>>
       ELSE /\ rdbFileMutex' = RLock(rdbFileMutex)
            /\ rdbFile' = [exists |-> TRUE, regular |-> TRUE, bytes |-> <<>>]
            /\ writer' = <<>>
            /\ todo' = DOMAIN copyOfKeyDataSpace
            /\ spc' = "Write"
            /\ UNCHANGED persistVars
    /\ UNCHANGED <<baseVars, callPc, connVars, tokVars, evicted, completed,
                   copyOfKeyDataSpace, copyOfKeyExpirationSpace,
                   restored, quiet, reached>>

\* saveRDBFile: one iteration of the range loop, in the map's arbitrary
\* order; the deadline is looked up in the global keyExpirations.
Snap_WriteEntry ==
    /\ spc = "Write"
    /\ \E key \in todo :
          LET f      == FindExpiration(keyExpirations, key)
              exp_ts == IF f.ok THEN f.ts ELSE NO_EXP_TS
          IN  /\ writer' = writer \o
                     writeRdbEntry(key, copyOfKeyDataSpace[key], exp_ts)
              /\ todo' = todo \ {key}
    /\ UNCHANGED <<baseVars, lockVars, connVars, auxVars,
                   spc, copyOfKeyDataSpace,
                   copyOfKeyExpirationSpace, rdbFile, restored, quiet,
                   reached>>

\* saveRDBFile: writer.Flush(), file.Sync(), close and the deferred RUnlock;
\* rdbSnapshotGoRoutine sets last_rdb_snapshot_ts and is back to the ticker.
Snap_Flush ==
    /\ spc = "Write"
    /\ todo = {}
    /\ rdbFile' = [exists |-> TRUE, regular |-> TRUE, bytes |-> writer]
    /\ writer' = <<>>
    /\ rdbFileMutex' = RUnlock(rdbFileMutex)
    /\ spc' = "Wait"
    /\ saveErr' = "nil"
    /\ last_rdb_snapshot_ts' = now
    /\ UNCHANGED <<baseVars, callPc, connVars, tokVars, evicted, completed,
                   copyOfKeyDataSpace, copyOfKeyExpirationSpace,
                   todo, restored, quiet, reached>>

\* saveRDBFile: a write of the range loop, writer.Flush() or file.Sync()
\* returns an error; saveRDBFile returns it (the deferred Close and RUnlock
\* run) with some prefix of the buffered bytes in the file, and
\* rdbSnapshotGoRoutine drops it, sets last_rdb_snapshot_ts and is back to
\* the ticker.
Snap_Fail ==
    /\ spc = "Write"
    /\ \E n \in 0 .. Len(writer) :
          rdbFile' = [exists |-> TRUE, regular |-> TRUE,
                      bytes |-> SubSeq(writer, 1, n)]
    /\ writer' = <<>>
    /\ rdbFileMutex' = RUnlock(rdbFileMutex)
    /\ spc' = "Wait"
    /\ saveErr' = "write"
    /\ last_rdb_snapshot_ts' = now
    /\ UNCHANGED <<baseVars, callPc, connVars, tokVars, evicted, completed,
                   copyOfKeyDataSpace, copyOfKeyExpirationSpace,
                   todo, restored, quiet, reached>>

\* A fresh process starts on the file as it stands between two snapshots:
\* initDataStructures builds empty stores and calls tryLoadRdbFile, whose
\* error it drops.
Restore ==
    /\ spc = "Wait"
    /\ ~restored.ok
    /\ CanRLock(rdbFileMutex)
    /\ LET l == tryLoadRdbFile(rdbFile, NewKeyDataSpace,
                               NewKeyExpirationMinHeap)
       IN  /\ restored' = [ok |-> TRUE, data |-> l.data, exp |-> l.exp,
                            err |-> l.err, serving |-> FALSE]
           /\ rdbFile' = l.file
    /\ UNCHANGED <<baseVars, lockVars, connVars, auxVars, mutexVars,
                   spc, copyOfKeyDataSpace,
                   copyOfKeyExpirationSpace, todo, writer, quiet, reached>>

\* History kept along a step of the server: whether a store changed, and
\* whether a deadline held by the Expiration Index has been reached.
Observe ==
    /\ quiet' = (/\ quiet
                 /\ keyDataSpace' = keyDataSpace
                 /\ keyExpirations' = keyExpirations)
    /\ reached' =
           (\/ reached
            \/ \E i \in 1 .. Len(keyExpirations'.items) :
                   keyExpirations'.items[i].expire_timestamp <= now')
    /\ UNCHANGED <<spc, copyOfKeyDataSpace, copyOfKeyExpirationSpace, todo,
                   writer, rdbFile, restored, lockVars, connVars, auxVars,
                   mutexVars>>

\* The connection whose command sequence is snapshotted.
RdbClients == {1}

\* The server with one connection sending the commands that write to the
\* Keyspace (SET and DEL), the reaper, the clock, the snapshot goroutine and
\* a fresh process loading the file.
RdbNext ==
    \/ \E c \in RdbClients, k \in Keys, ttl \in TTLs :
          SET_Parse(c, k, ClientValue(c), ttl) /\ Observe
    \/ \E c \in RdbClients : SET_Add(c) /\ Observe
    \/ \E c \in RdbClients : SET_PushItem(c) /\ Observe
    \/ \E c \in RdbClients, k \in Keys : DEL_Remove(c, k) /\ Observe
    \/ \E c \in RdbClients : DEL_HeapRemove(c) /\ Observe
    \/ Reaper_Peek /\ Observe
    \/ Reaper_Check /\ Observe
    \/ Reaper_Remove /\ Observe
    \/ Reaper_PopMin /\ Observe
    \/ Reaper_Sleep /\ Observe
    \/ Tick /\ Observe
    \/ Snap_DeepCopyData /\ UNCHANGED mutexVars
    \/ Snap_DeepCopyExp /\ UNCHANGED mutexVars
    \/ Snap_Open /\ UNCHANGED mutexVars
    \/ Snap_WriteEntry /\ UNCHANGED mutexVars
    \/ Snap_Flush /\ UNCHANGED mutexVars
    \/ Restore

RdbSpec == Init /\ [][RdbNext]_vars

\* One connection sending SETs, the clock and the snapshot goroutine, on a
\* disk whose writes can fail.
PersistNext ==
    \/ \E c \in RdbClients, k \in Keys, ttl \in TTLs :
          SET_Parse(c, k, ClientValue(c), ttl) /\ Observe
    \/ \E c \in RdbClients : SET_Add(c) /\ Observe
    \/ \E c \in RdbClients : SET_PushItem(c) /\ Observe
    \/ Tick /\ Observe
    \/ Snap_DeepCopyData /\ UNCHANGED mutexVars
    \/ Snap_DeepCopyExp /\ UNCHANGED mutexVars
    \/ Snap_Open /\ UNCHANGED mutexVars
    \/ Snap_WriteEntry /\ UNCHANGED mutexVars
    \/ Snap_Flush /\ UNCHANGED mutexVars
    \/ Snap_Fail /\ UNCHANGED mutexVars

PersistSpec == Init /\ [][PersistNext]_vars

(***************************************************************************)
(* Startup on whatever the snapshot path holds: nothing, a directory, a    *)
(* snapshot file, or a snapshot file cut short at any byte.                *)
(***************************************************************************)
\* Number of entries of the files found at startup.
MaxEntries == 2

\* The entries saveRDBFile can have written for the keys of the runs.
FileDeadlines == {NO_EXP_TS, StartTime + MsPerSec, MaxInt64}
FileEntries ==
    {writeRdbEntry(k, ClientValue(1), d) : k \in Keys, d \in FileDeadlines}

\* The bytes of a file made of the entries s, in order.
RECURSIVE Concat(_)
Concat(s) == IF s = <<>> THEN <<>> ELSE Head(s) \o Concat(Tail(s))

\* The files that are a concatenation of complete entries.
CompleteFiles ==
    {Concat(s) : s \in UNION {[1 .. n -> FileEntries] : n \in 0 .. MaxEntries}}

\* What the snapshot path can hold at startup.
LoadFiles ==
    {NoFile, [exists |-> TRUE, regular |-> FALSE, bytes |-> <<>>]} \cup
    UNION {{[exists |-> TRUE, regular |-> TRUE, bytes |-> SubSeq(b, 1, n)] :
               n \in 0 .. Len(b)} : b \in CompleteFiles}

LoadInit ==
    /\ InitButFile
    /\ rdbFile \in LoadFiles

\* main after initDataStructures: it listens, starts the reaper and the
\* snapshot goroutine and enters the accept loop.
Serve ==
    /\ restored.ok
    /\ ~restored.serving
    /\ restored' = [restored EXCEPT !.serving = TRUE]
    /\ UNCHANGED <<baseVars, lockVars, connVars, auxVars, mutexVars,
                   spc, copyOfKeyDataSpace,
                   copyOfKeyExpirationSpace, todo, writer, rdbFile, quiet,
                   reached>>

LoadNext ==
    \/ Restore
    \/ Serve

LoadSpec == LoadInit /\ [][LoadNext]_vars

(***************************************************************************)
(* The server started on a snapshot file: initDataStructures has filled    *)
(* the stores from it, then one connection, the reaper and the clock run.  *)
(***************************************************************************)
BootInit ==
    /\ InitButStores
    /\ tokenLine = <<>>
    /\ \E b \in CompleteFiles :
          /\ rdbFile = [exists |-> TRUE, regular |-> TRUE, bytes |-> b]
          /\ LET l == tryLoadRdbFile(rdbFile, NewKeyDataSpace,
                                     NewKeyExpirationMinHeap)
             IN  /\ keyDataSpace = l.data
                 /\ keyExpirations = l.exp

BootNext ==
    \/ \E c \in RdbClients, k \in Keys, ttl \in TTLs :
          SET_Parse(c, k, ClientValue(c), ttl) /\ UNCHANGED otherVars
    \/ \E c \in RdbClients : SET_Add(c) /\ UNCHANGED otherVars
    \/ \E c \in RdbClients : SET_PushItem(c) /\ UNCHANGED otherVars
    \/ \E c \in RdbClients, k \in Keys :
          DEL_Remove(c, k) /\ UNCHANGED otherVars
    \/ \E c \in RdbClients : DEL_HeapRemove(c) /\ UNCHANGED otherVars
    \/ \E c \in RdbClients, k \in Keys : GET(c, k) /\ UNCHANGED otherVars
    \/ \E c \in RdbClients, k \in Keys, ttl \in TTLs :
          SETEXP_Parse(c, k, ttl) /\ UNCHANGED otherVars
    \/ \E c \in RdbClients : SETEXP_Update(c) /\ UNCHANGED otherVars
    \/ Reaper_Peek /\ UNCHANGED otherVars
    \/ Reaper_Check /\ UNCHANGED otherVars
    \/ Reaper_Remove /\ UNCHANGED otherVars
    \/ Reaper_PopMin /\ UNCHANGED otherVars
    \/ Reaper_Sleep /\ UNCHANGED otherVars
    \/ Tick /\ UNCHANGED otherVars

BootSpec == BootInit /\ [][BootNext]_vars

(***************************************************************************)
(* saveRDBFile and tryLoadRdbFile under concurrent callers: what their     *)
(* use of rdbFileMutex allows.  A call is taken step by step: the lock,    *)
(* the file operations of the critical section, the deferred unlock.       *)
(***************************************************************************)
\* The dataSnapshot caller i passes to saveRDBFile.
CallerData(i) ==
    IF i = 1 THEN <<97>> :> <<120>> ELSE <<98, 99>> :> <<121, 122>>

\* The bytes saveRDBFile writes for dataSnapshot m, in some order of its keys.
RECURSIVE SnapshotBytes(_, _)
SnapshotBytes(m, ks) ==
    IF ks = {} THEN <<>>
    ELSE LET key    == CHOOSE k \in ks : TRUE
             f      == FindExpiration(keyExpirations, key)
             exp_ts == IF f.ok THEN f.ts ELSE NO_EXP_TS
         IN  writeRdbEntry(key, m[key], exp_ts) \o
             SnapshotBytes(m, ks \ {key})

\* saveRDBFile: rdbFileMutex.RLock()
Save_RLock(i) ==
    /\ callPc[i] = "out"
    /\ CanRLock(rdbFileMutex)
    /\ rdbFileMutex' = RLock(rdbFileMutex)
    /\ callPc' = [callPc EXCEPT ![i] = "save_locked"]
    /\ UNCHANGED <<baseVars, snapVars, connVars, auxVars, mutexVars>>

\* saveRDBFile: os.OpenFile(O_WRONLY|O_CREATE|O_TRUNC)
Save_Open(i) ==
    /\ callPc[i] = "save_locked"
    /\ rdbFile' = [exists |-> TRUE, regular |-> TRUE, bytes |-> <<>>]
    /\ callPc' = [callPc EXCEPT ![i] = "save_opened"]
    /\ UNCHANGED <<baseVars, connVars, auxVars, mutexVars,
                   rdbFileMutex, spc, copyOfKeyDataSpace,
                   copyOfKeyExpirationSpace, todo, writer, restored, quiet,
                   reached>>

\* saveRDBFile: the entries through the buffered writer, Flush and Sync.
Save_Flush(i) ==
    /\ callPc[i] = "save_opened"
    /\ rdbFile' = [exists |-> TRUE, regular |-> TRUE,
                   bytes |-> SnapshotBytes(CallerData(i),
                                           DOMAIN CallerData(i))]
    /\ callPc' = [callPc EXCEPT ![i] = "save_flushed"]
    /\ UNCHANGED <<baseVars, connVars, auxVars, mutexVars,
                   rdbFileMutex, spc, copyOfKeyDataSpace,
                   copyOfKeyExpirationSpace, todo, writer, restored, quiet,
                   reached>>

\* saveRDBFile returns: the deferred rdbFileMutex.RUnlock()
Save_RUnlock(i) ==
    /\ callPc[i] = "save_flushed"
    /\ rdbFileMutex' = RUnlock(rdbFileMutex)
    /\ callPc' = [callPc EXCEPT ![i] = "out"]
    /\ UNCHANGED <<baseVars, snapVars, connVars, auxVars, mutexVars>>

\* tryLoadRdbFile: rdbFileMutex.RLock()
Load_RLock(i) ==
    /\ callPc[i] = "out"
    /\ CanRLock(rdbFileMutex)
    /\ rdbFileMutex' = RLock(rdbFileMutex)
    /\ callPc' = [callPc EXCEPT ![i] = "load_locked"]
    /\ UNCHANGED <<baseVars, snapVars, connVars, auxVars, mutexVars>>

\* tryLoadRdbFile: Stat, Open and the read loop, into fresh stores.
Load_Read(i) ==
    /\ callPc[i] = "load_locked"
    /\ LET l == tryLoadRdbFile(rdbFile, NewKeyDataSpace,
                               NewKeyExpirationMinHeap)
       IN  /\ restored' = [ok |-> TRUE, data |-> l.data, exp |-> l.exp,
                            err |-> l.err, serving |-> FALSE]
           /\ rdbFile' = l.file
    /\ callPc' = [callPc EXCEPT ![i] = "load_read"]
    /\ UNCHANGED <<baseVars, connVars, auxVars, mutexVars,
                   rdbFileMutex, spc, copyOfKeyDataSpace,
                   copyOfKeyExpirationSpace, todo, writer, quiet, reached>>

\* tryLoadRdbFile returns: the deferred rdbFileMutex.RUnlock()
Load_RUnlock(i) ==
    /\ callPc[i] = "load_read"
    /\ rdbFileMutex' = RUnlock(rdbFileMutex)
    /\ callPc' = [callPc EXCEPT ![i] = "out"]
    /\ UNCHANGED <<baseVars, snapVars, connVars, auxVars, mutexVars>>

LockNext ==
    \/ \E i \in Callers : Save_RLock(i)
    \/ \E i \in Callers : Save_Open(i)
    \/ \E i \in Callers : Save_Flush(i)
    \/ \E i \in Callers : Save_RUnlock(i)
    \/ \E i \in Callers : Load_RLock(i)
    \/ \E i \in Callers : Load_Read(i)
    \/ \E i \in Callers : Load_RUnlock(i)

LockSpec == Init /\ [][LockNext]_vars

(***************************************************************************)
(* One connection at the level of its lines: handleClientServerRoutine     *)
(* reads a line, answers it at once or hands it to a handler, and writes   *)
(* the reply; the reaper and the clock run alongside.                      *)
(***************************************************************************)
\* The request lines a client sends, each as ReadString('\n') returns it:
\*   "\n"
\*   "\r\n"
\*   " \t\n"
\*   "GET a\n"
\*   "get bc\r\n"
\*   "GET\n"
\*   "SET a x\n"
\*   "SET a x 1\n"
\*   "set bc "y z" -1\n"
\*   "SET bc x 0\n"
\*   "SET a x zz\n"
\*   "SET a "x\n"
\*   "SET bc {x\n"
\*   "SET a\n"
\*   "DEL a\n"
\*   "SETEXP a 1\n"
\*   "SETEXP bc 1\n"
\*   "ESC\n"
\*   "eSc now\n"
\*   "FOO a\n"
\*   "PING\n"
Lines ==
    {<<10>>,
     <<13, 10>>,
     <<32, 9, 10>>,
     <<71, 69, 84, 32, 97, 10>>,
     <<103, 101, 116, 32, 98, 99, 13, 10>>,
     <<71, 69, 84, 10>>,
     <<83, 69, 84, 32, 97, 32, 120, 10>>,
     <<83, 69, 84, 32, 97, 32, 120, 32, 49, 10>>,
     <<115, 101, 116, 32, 98, 99, 32, 34, 121, 32, 122, 34, 32, 45, 49, 10>>,
     <<83, 69, 84, 32, 98, 99, 32, 120, 32, 48, 10>>,
     <<83, 69, 84, 32, 97, 32, 120, 32, 122, 122, 10>>,
     <<83, 69, 84, 32, 97, 32, 34, 120, 10>>,
     <<83, 69, 84, 32, 98, 99, 32, 123, 120, 10>>,
     <<83, 69, 84, 32, 97, 10>>,
     <<68, 69, 76, 32, 97, 10>>,
     <<83, 69, 84, 69, 88, 80, 32, 97, 32, 49, 10>>,
     <<83, 69, 84, 69, 88, 80, 32, 98, 99, 32, 49, 10>>,
     <<69, 83, 67, 10>>,
     <<101, 83, 99, 32, 110, 111, 119, 10>>,
     <<70, 79, 79, 32, 97, 10>>,
     <<80, 73, 78, 71, 10>>}

\* The connection observed, and the number of lines read from it.
ConnClients == {1}
MaxLines == 2

\* Further lines: SETEXP with its TTL missing, and the parse failures of
\* SETEXP and DEL.
MoreLines ==
    {<<83, 69, 84, 69, 88, 80, 32, 97, 10>>,      \* "SETEXP a"
     <<83, 69, 84, 69, 88, 80, 32, 98, 99, 10>>,      \* "SETEXP bc"
     <<83, 69, 84, 69, 88, 80, 32, 97, 32, 122, 122, 10>>,      \* "SETEXP a zz"
     <<83, 69, 84, 69, 88, 80, 10>>,      \* "SETEXP"
     <<68, 69, 76, 10>>}      \* "DEL"
AllLines == Lines \cup MoreLines

\* handleLine and TrimRight on each of the lines.
Handled == [raw \in AllLines |-> handleLine(raw)]
Trimmed == [raw \in AllLines \cup {<<>>} |-> TrimRight(raw)]

\* The handler reads raw and finds an empty line: nothing is written.
Conn_Skip(c, raw) ==
    /\ pc[c] = "idle"
    /\ issued < MaxLines
    /\ Handled[raw].kind = "skip"
    /\ issued' = issued + 1
    /\ UNCHANGED <<keyDataSpace, keyExpirations, now, pc, cur, reply, last,
                   rpc, keyExp>>

\* The line holds separators only: ERR: empty command.
Conn_EmptyCommand(c, raw) ==
    /\ pc[c] = "idle"
    /\ issued < MaxLines
    /\ Handled[raw].kind = "empty"
    /\ issued' = issued + 1
    /\ reply' = [reply EXCEPT ![c] = ReplyERR(S_EmptyCommand)]
    /\ UNCHANGED <<keyDataSpace, keyExpirations, now, pc, cur, last, rpc,
                   keyExp>>

\* The command word is ESC: closing connection., return, conn.Close().
Conn_ESC(c, raw) ==
    /\ pc[c] = "idle"
    /\ issued < MaxLines
    /\ Handled[raw].kind = "esc"
    /\ issued' = issued + 1
    /\ reply' = [reply EXCEPT ![c] = [err |-> FALSE, res |-> S_Closing]]
    /\ pc' = [pc EXCEPT ![c] = "closed"]
    /\ UNCHANGED <<keyDataSpace, keyExpirations, now, cur, last, rpc, keyExp>>

\* A parse failure that also empties the Keyspace.
Conn_FailClears(c, raw) ==
    /\ pc[c] = "idle"
    /\ issued < MaxLines
    /\ Handled[raw].kind = "err"
    /\ issued' = issued + 1
    /\ reply' = [reply EXCEPT ![c] = ReplyERR(Handled[raw].msg)]
    /\ keyDataSpace' = NewKeyDataSpace
    /\ UNCHANGED <<keyExpirations, now, pc, cur, last, rpc, keyExp>>

\* tryParseExecuteCommand returns an error before any store is called.
Conn_Fail(c, raw) ==
    /\ pc[c] = "idle"
    /\ issued < MaxLines
    /\ Handled[raw].kind = "err"
    /\ issued' = issued + 1
    /\ reply' = [reply EXCEPT ![c] = ReplyERR(Handled[raw].msg)]
    /\ UNCHANGED <<keyDataSpace, keyExpirations, now, pc, cur, last, rpc,
                   keyExp>>

\* PING, HELP: a constant result.
Conn_Constant(c, raw) ==
    /\ pc[c] = "idle"
    /\ issued < MaxLines
    /\ Handled[raw].kind = "const"
    /\ issued' = issued + 1
    /\ reply' = [reply EXCEPT ![c] = Respond(Handled[raw].value)]
    /\ UNCHANGED <<keyDataSpace, keyExpirations, now, pc, cur, last, rpc,
                   keyExp>>

\* The line goes to GET, SET, DEL or SETEXP with arguments that parse.
Conn_GET(c, raw) ==
    /\ issued < MaxLines
    /\ Handled[raw].kind = "GET"
    /\ GET(c, Handled[raw].key)

Conn_SET(c, raw) ==
    /\ issued < MaxLines
    /\ Handled[raw].kind = "SET"
    /\ SET_Parse(c, Handled[raw].key, Handled[raw].value,
                 Handled[raw].ttl)

Conn_DEL(c, raw) ==
    /\ issued < MaxLines
    /\ Handled[raw].kind = "DEL"
    /\ DEL_Remove(c, Handled[raw].key)

Conn_SETEXP(c, raw) ==
    /\ issued < MaxLines
    /\ Handled[raw].kind = "SETEXP"
    /\ SETEXP_Parse(c, Handled[raw].key, Handled[raw].ttl)

\* History kept along a step: the non-empty line read (<<>> when the step
\* reads none), and whether the step writes the response line.
History(c, raw, writes) ==
    /\ inp' = IF Trimmed[raw] # <<>> THEN Append(inp, Trimmed[raw]) ELSE inp
    /\ out' = IF writes THEN Append(out, ResponseLine(reply'[c])) ELSE out
    /\ UNCHANGED <<snapVars, lockVars, mutexVars, auxVars>>

ConnNext ==
    \/ \E c \in ConnClients, raw \in Lines :
          Conn_Skip(c, raw) /\ History(c, raw, FALSE)
    \/ \E c \in ConnClients, raw \in Lines :
          Conn_EmptyCommand(c, raw) /\ History(c, raw, TRUE)
    \/ \E c \in ConnClients, raw \in Lines :
          Conn_ESC(c, raw) /\ History(c, raw, TRUE)
    \/ \E c \in ConnClients, raw \in Lines :
          Conn_Fail(c, raw) /\ History(c, raw, TRUE)
    \/ \E c \in ConnClients, raw \in Lines :
          Conn_Constant(c, raw) /\ History(c, raw, TRUE)
    \/ \E c \in ConnClients, raw \in Lines :
          Conn_GET(c, raw) /\ History(c, raw, TRUE)
    \/ \E c \in ConnClients, raw \in Lines :
          Conn_SET(c, raw) /\ History(c, raw, FALSE)
    \/ \E c \in ConnClients, raw \in Lines :
          Conn_DEL(c, raw) /\ History(c, raw, FALSE)
    \/ \E c \in ConnClients, raw \in Lines :
          Conn_SETEXP(c, raw) /\ History(c, raw, FALSE)
    \/ \E c \in ConnClients : SET_Add(c) /\ History(c, <<>>, FALSE)
    \/ \E c \in ConnClients :
          SET_PushItem(c) /\ History(c, <<>>, TRUE)
    \/ \E c \in ConnClients :
          DEL_HeapRemove(c) /\ History(c, <<>>, TRUE)
    \/ \E c \in ConnClients :
          SETEXP_Update(c) /\ History(c, <<>>, TRUE)
    \/ Reaper_Peek /\ History(1, <<>>, FALSE)
    \/ Reaper_Check /\ History(1, <<>>, FALSE)
    \/ Reaper_Remove /\ History(1, <<>>, FALSE)
    \/ Reaper_PopMin /\ History(1, <<>>, FALSE)
    \/ Reaper_Sleep /\ History(1, <<>>, FALSE)
    \/ Tick /\ History(1, <<>>, FALSE)

ConnSpec == Init /\ [][ConnNext]_vars

\* The same connection sending any of the lines.
LineNext ==
    \/ \E c \in ConnClients, raw \in AllLines :
          Conn_Skip(c, raw) /\ History(c, raw, FALSE)
    \/ \E c \in ConnClients, raw \in AllLines :
          Conn_EmptyCommand(c, raw) /\ History(c, raw, TRUE)
    \/ \E c \in ConnClients, raw \in AllLines :
          Conn_ESC(c, raw) /\ History(c, raw, TRUE)
    \/ \E c \in ConnClients, raw \in AllLines :
          Conn_Fail(c, raw) /\ History(c, raw, TRUE)
    \/ \E c \in ConnClients, raw \in AllLines :
          Conn_Constant(c, raw) /\ History(c, raw, TRUE)
    \/ \E c \in ConnClients, raw \in AllLines :
          Conn_GET(c, raw) /\ History(c, raw, TRUE)
    \/ \E c \in ConnClients, raw \in AllLines :
          Conn_SET(c, raw) /\ History(c, raw, FALSE)
    \/ \E c \in ConnClients, raw \in AllLines :
          Conn_DEL(c, raw) /\ History(c, raw, FALSE)
    \/ \E c \in ConnClients, raw \in AllLines :
          Conn_SETEXP(c, raw) /\ History(c, raw, FALSE)
    \/ \E c \in ConnClients : SET_Add(c) /\ History(c, <<>>, FALSE)
    \/ \E c \in ConnClients :
          SET_PushItem(c) /\ History(c, <<>>, TRUE)
    \/ \E c \in ConnClients :
          DEL_HeapRemove(c) /\ History(c, <<>>, TRUE)
    \/ \E c \in ConnClients :
          SETEXP_Update(c) /\ History(c, <<>>, TRUE)
    \/ Reaper_Peek /\ History(1, <<>>, FALSE)
    \/ Reaper_Check /\ History(1, <<>>, FALSE)
    \/ Reaper_Remove /\ History(1, <<>>, FALSE)
    \/ Reaper_PopMin /\ History(1, <<>>, FALSE)
    \/ Reaper_Sleep /\ History(1, <<>>, FALSE)
    \/ Tick /\ History(1, <<>>, FALSE)

LineSpec == Init /\ [][LineNext]_vars

(***************************************************************************)
(* The store locks.  Every public method of KeyDataSpace and of            *)
(* KeyExpirationMinHeap takes its store's mutex on entry and releases it   *)
(* by a deferred unlock on return; here a store call is the request of     *)
(* the lock, its acquisition, and the method's body with the unlock.       *)
(* saveRDBFile holds rdbFileMutex around its calls of FindExpiration.      *)
(***************************************************************************)
\* The connection of the runs with locks, and the TTL arguments it sends
\* (a TTL of 0 expires at once).
MutexClients == {1}
MutexTTLs == {-1, 0}
\* Number of commands in a run with locks.
MaxMutexCmds == 2

LockRecord(l, m, st, op, k) ==
    [lock |-> l, mode |-> m, st |-> st, op |-> op, key |-> k]

\* The innermost lock of goroutine t, and whether t is inside a store call.
Top(t) == locks[t][Len(locks[t])]
InStoreCall(t) == locks[t] # <<>> /\ Top(t).lock \in StoreLocks
Waiting(t) == InStoreCall(t) /\ Top(t).st = "wait"
Holding(t, l, m) ==
    /\ InStoreCall(t)
    /\ Top(t).lock = l
    /\ Top(t).mode = m
    /\ Top(t).st = "held"

\* The store call a handler makes at each position, with its lock:
\* Add takes Lock on the Keyspace, PushItem, Remove and UpdateExpiration
\* take Lock on the Expiration Index.
HandlerLock ==
    [SET_Add        |-> [lock |-> "ks", mode |-> "W"],
     SET_PushItem   |-> [lock |-> "ei", mode |-> "W"],
     DEL_HeapRemove |-> [lock |-> "ei", mode |-> "W"],
     SETEXP_Update  |-> [lock |-> "ei", mode |-> "W"]]

\* The reaper's store calls: Peek (RLock), keyDataSpace.Remove, PopMin.
ReaperLock ==
    [Peek   |-> [lock |-> "ei", mode |-> "R"],
     Remove |-> [lock |-> "ks", mode |-> "W"],
     PopMin |-> [lock |-> "ei", mode |-> "W"]]

\* s.mu.Lock() / s.mu.RLock() is called: a Lock announces itself.
RequestLock(t, l, m, op, k) ==
    /\ ~InStoreCall(t)
    /\ locks' = [locks EXCEPT ![t] = Append(@, LockRecord(l, m, "wait", op, k))]
    /\ mu' = IF m = "W" THEN [mu EXCEPT ![l] = LockPending(@)] ELSE mu

\* The call of Lock / RLock returns.
AcquireLock(t) ==
    /\ Waiting(t)
    /\ LET l == Top(t).lock
       IN  IF Top(t).mode = "R"
           THEN CanRLock(mu[l]) /\ mu' = [mu EXCEPT ![l] = RLock(@)]
           ELSE CanLock(mu[l]) /\ mu' = [mu EXCEPT ![l] = Lock(@)]
    /\ locks' = [locks EXCEPT ![t][Len(locks[t])].st = "held"]

\* A method that returns without unlocking.
ReturnLocked(t) ==
    /\ mu' = mu
    /\ locks' = [locks EXCEPT ![t] = SubSeq(@, 1, Len(@) - 1)]

\* defer s.mu.Unlock() / defer s.mu.RUnlock(): the method returns.
ReleaseLock(t) ==
    /\ mu' = [mu EXCEPT ![Top(t).lock] =
                 IF Top(t).mode = "R" THEN RUnlock(@) ELSE Unlock(@)]
    /\ locks' = [locks EXCEPT ![t] = SubSeq(@, 1, Len(@) - 1)]

\* What a step of a handler or of the reaper leaves alone.
copyVars == <<clonedData, rangeLeft>>
taskFrame == <<snapVars, lockVars, connVars, auxVars, copyVars>>

\* A handler between two commands, and the room left for commands: those
\* read while waiting for the first lock count.
AtReadString(c) == pc[c] = "idle" /\ locks[c] = <<>> /\ c \notin printer
CanReceive ==
    issued + Cardinality({c \in MutexClients :
                             pc[c] = "idle" /\ locks[c] # <<>>}) < MaxMutexCmds

M_SET_Parse(c, k, ttl) ==
    /\ AtReadString(c)
    /\ CanReceive
    /\ SET_Parse(c, k, ClientValue(c), ttl)
    /\ UNCHANGED <<mu, locks, printer, taskFrame>>

M_SETEXP_Parse(c, k, ttl) ==
    /\ AtReadString(c)
    /\ CanReceive
    /\ SETEXP_Parse(c, k, ttl)
    /\ UNCHANGED <<mu, locks, printer, taskFrame>>

\* GET: keyDataSpace.Get(key) is entered, s.mu.RLock()
M_GET_RLock(c, k) ==
    /\ AtReadString(c)
    /\ CanReceive
    /\ RequestLock(c, "ks", "R", "GET", k)
    /\ UNCHANGED <<baseVars, printer, taskFrame>>

\* DEL: keyDataSpace.Remove(key) is entered, s.mu.Lock()
M_DEL_Lock(c, k) ==
    /\ AtReadString(c)
    /\ CanReceive
    /\ RequestLock(c, "ks", "W", "DEL", k)
    /\ UNCHANGED <<baseVars, printer, taskFrame>>

\* The handler enters the store call of its position.
M_Handler_Lock(c) ==
    /\ pc[c] \in DOMAIN HandlerLock
    /\ RequestLock(c, HandlerLock[pc[c]].lock, HandlerLock[pc[c]].mode,
                   "", <<>>)
    /\ UNCHANGED <<baseVars, printer, taskFrame>>

\* A goroutine waiting for a store lock gets it.
M_Acquire(t) ==
    /\ AcquireLock(t)
    /\ UNCHANGED <<baseVars, printer, taskFrame>>

M_GET(c) ==
    /\ Holding(c, "ks", "R")
    /\ Top(c).op = "GET"
    /\ GET(c, Top(c).key)
    /\ ReleaseLock(c)
    /\ printer' = printer \cup {c}
    /\ UNCHANGED taskFrame

M_SET_Add(c) ==
    /\ Holding(c, "ks", "W")
    /\ SET_Add(c)
    /\ ReleaseLock(c)
    /\ UNCHANGED <<printer, taskFrame>>

M_SET_PushItem(c) ==
    /\ Holding(c, "ei", "W")
    /\ SET_PushItem(c)
    /\ ReleaseLock(c)
    /\ printer' = printer \cup {c}
    /\ UNCHANGED taskFrame

M_DEL_Remove(c) ==
    /\ Holding(c, "ks", "W")
    /\ Top(c).op = "DEL"
    /\ DEL_Remove(c, Top(c).key)
    /\ ReleaseLock(c)
    /\ UNCHANGED <<printer, taskFrame>>

M_DEL_HeapRemove(c) ==
    /\ Holding(c, "ei", "W")
    /\ DEL_HeapRemove(c)
    /\ ReleaseLock(c)
    /\ printer' = printer \cup {c}
    /\ UNCHANGED taskFrame

M_SETEXP_Update(c) ==
    /\ Holding(c, "ei", "W")
    /\ SETEXP_Update(c)
    /\ ReleaseLock(c)
    /\ printer' = printer \cup {c}
    /\ UNCHANGED taskFrame

\* printMemoryStatus(), called by the handler after every command: it
\* reads keyExpirations.Len() and keyExpirations.items, taking no lock.
printMemoryStatus(c) ==
    /\ c \in printer
    /\ printer' = printer \ {c}
    /\ UNCHANGED <<baseVars, mu, locks, taskFrame>>

\* The reaper enters the store call of its position.
M_Reaper_Lock ==
    /\ rpc \in DOMAIN ReaperLock
    /\ RequestLock(ReaperTask, ReaperLock[rpc].lock, ReaperLock[rpc].mode,
                   "", <<>>)
    /\ UNCHANGED <<baseVars, printer, taskFrame>>

M_Reaper_Peek ==
    /\ Holding(ReaperTask, "ei", "R")
    /\ Reaper_Peek
    /\ ReleaseLock(ReaperTask)
    /\ UNCHANGED <<printer, taskFrame>>

M_Reaper_Remove ==
    /\ Holding(ReaperTask, "ks", "W")
    /\ Reaper_Remove
    /\ ReleaseLock(ReaperTask)
    /\ UNCHANGED <<printer, taskFrame>>

M_Reaper_PopMin ==
    /\ Holding(ReaperTask, "ei", "W")
    /\ Reaper_PopMin
    /\ ReleaseLock(ReaperTask)
    /\ UNCHANGED <<printer, taskFrame>>

\* The reaper's steps outside the stores: the deadline test and the sleep.
M_Reaper_Check == Reaper_Check /\ UNCHANGED <<mu, locks, printer, taskFrame>>
M_Reaper_Sleep == Reaper_Sleep /\ UNCHANGED <<mu, locks, printer, taskFrame>>

\* What a step inside KeyDataSpace.DeepCopy leaves alone.
deepCopyFrame == <<baseVars, lockVars, connVars, auxVars, printer,
                   copyOfKeyExpirationSpace, todo, writer, rdbFile,
                   restored, quiet, reached>>

\* The ticker fires and keyDataSpace.DeepCopy() is entered: s.mu.RLock()
DeepCopy_RLock ==
    /\ spc = "Wait"
    /\ RequestLock(SnapTask, "ks", "R", "", <<>>)
    /\ UNCHANGED <<deepCopyFrame, copyVars, spc, copyOfKeyDataSpace>>

\* clonedData := make(map[string]string, len(s.data)), and the range starts.
DeepCopy_Make ==
    /\ spc = "Wait"
    /\ Holding(SnapTask, "ks", "R")
    /\ clonedData' = NewKeyDataSpace
    /\ rangeLeft' = DOMAIN keyDataSpace
    /\ spc' = "DeepCopyRange"
    /\ UNCHANGED <<deepCopyFrame, mu, locks, copyOfKeyDataSpace>>

\* One iteration of the range: clonedData[key] = value
DeepCopy_Range ==
    /\ spc = "DeepCopyRange"
    /\ \E key \in rangeLeft :
          /\ clonedData' = IF key \in DOMAIN keyDataSpace
                           THEN Add(clonedData, key, keyDataSpace[key])
                           ELSE clonedData
          /\ rangeLeft' = rangeLeft \ {key}
    /\ UNCHANGED <<deepCopyFrame, mu, locks, spc, copyOfKeyDataSpace>>

\* DeepCopy returns the clone (the deferred RUnlock runs).
DeepCopy_Return ==
    /\ spc = "DeepCopyRange"
    /\ rangeLeft = {}
    /\ copyOfKeyDataSpace' = clonedData
    /\ spc' = "DeepCopyExp"
    /\ ReleaseLock(SnapTask)
    /\ UNCHANGED <<deepCopyFrame, copyVars>>

\* keyExpirations.DeepCopy() or FindExpiration(key) is entered: RLock.
M_Snap_RLock ==
    /\ \/ spc = "DeepCopyExp"
       \/ spc = "Write" /\ todo # {}
    /\ RequestLock(SnapTask, "ei", "R", "", <<>>)
    /\ UNCHANGED <<deepCopyFrame, copyVars, spc, copyOfKeyDataSpace>>

M_Snap_DeepCopyExp ==
    /\ Holding(SnapTask, "ei", "R")
    /\ Snap_DeepCopyExp
    /\ ReleaseLock(SnapTask)
    /\ UNCHANGED <<printer, copyVars>>

\* saveRDBFile is entered: rdbFileMutex.RLock() and the open.
M_Snap_Open ==
    /\ Snap_Open
    /\ locks' = IF spc' = "Write"
                THEN [locks EXCEPT ![SnapTask] =
                         Append(@, LockRecord("file", "R", "held", "", <<>>))]
                ELSE locks
    /\ UNCHANGED <<mu, printer, copyVars>>

\* One entry: FindExpiration under the index lock, then writeRdbEntry.
M_Snap_WriteEntry ==
    /\ Holding(SnapTask, "ei", "R")
    /\ Snap_WriteEntry
    /\ ReleaseLock(SnapTask)
    /\ UNCHANGED <<printer, copyVars>>

\* saveRDBFile returns: rdbFileMutex.RUnlock() runs.
M_Snap_Flush ==
    /\ ~InStoreCall(SnapTask)
    /\ Snap_Flush
    /\ locks' = [locks EXCEPT ![SnapTask] = SubSeq(@, 1, Len(@) - 1)]
    /\ UNCHANGED <<mu, printer, copyVars>>

\* History kept along a step: the contents of the Keyspace since the call
\* of the DeepCopy under way.
Watch ==
    seen' = IF /\ locks'[SnapTask] # <<>>
               /\ locks'[SnapTask][Len(locks'[SnapTask])].lock = "ks"
            THEN seen \cup {keyDataSpace'}
            ELSE {}

MutexNext ==
    \/ \E c \in MutexClients, k \in Keys, ttl \in MutexTTLs :
          M_SET_Parse(c, k, ttl) /\ Watch
    \/ \E c \in MutexClients, k \in Keys, ttl \in MutexTTLs :
          M_SETEXP_Parse(c, k, ttl) /\ Watch
    \/ \E c \in MutexClients, k \in Keys : M_GET_RLock(c, k) /\ Watch
    \/ \E c \in MutexClients, k \in Keys : M_DEL_Lock(c, k) /\ Watch
    \/ \E c \in MutexClients : M_Handler_Lock(c) /\ Watch
    \/ \E t \in Tasks : M_Acquire(t) /\ Watch
    \/ \E c \in MutexClients : M_GET(c) /\ Watch
    \/ \E c \in MutexClients : M_SET_Add(c) /\ Watch
    \/ \E c \in MutexClients : M_SET_PushItem(c) /\ Watch
    \/ \E c \in MutexClients : M_DEL_Remove(c) /\ Watch
    \/ \E c \in MutexClients : M_DEL_HeapRemove(c) /\ Watch
    \/ \E c \in MutexClients : M_SETEXP_Update(c) /\ Watch
    \/ \E c \in MutexClients : printMemoryStatus(c) /\ Watch
    \/ M_Reaper_Lock /\ Watch
    \/ M_Reaper_Peek /\ Watch
    \/ M_Reaper_Check /\ Watch
    \/ M_Reaper_Remove /\ Watch
    \/ M_Reaper_PopMin /\ Watch
    \/ M_Reaper_Sleep /\ Watch
    \/ DeepCopy_RLock /\ Watch
    \/ DeepCopy_Make /\ Watch
    \/ DeepCopy_Range /\ Watch
    \/ DeepCopy_Return /\ Watch
    \/ M_Snap_RLock /\ Watch
    \/ M_Snap_DeepCopyExp /\ Watch
    \/ M_Snap_Open /\ Watch
    \/ M_Snap_WriteEntry /\ Watch
    \/ M_Snap_Flush /\ Watch

MutexSpec == Init /\ [][MutexNext]_vars

(***************************************************************************)
(* The tokenizers on their own: each is applied to every string, up to a   *)
(* length, over the bytes they tell apart.                                 *)
(***************************************************************************)
\* space, tab, a, double quote, backslash, { } [ ]
TokenBytes == {32, 9, 97, 34, 92, 123, 125, 91, 93}
MaxLineLen == 4
TokenLines == UNION {[1 .. n -> TokenBytes] : n \in 0 .. MaxLineLen}

TokenInit ==
    /\ InitButStores
    /\ keyDataSpace = NewKeyDataSpace
    /\ keyExpirations = NewKeyExpirationMinHeap
    /\ rdbFile = NoFile
    /\ tokenLine \in TokenLines

tokenFrame == <<baseVars, snapVars, lockVars, connVars, mutexVars, tokenLine,
                evicted, persistVars, completed>>

\* tok, rest, err := cutFirstTokenSpaceTab(s)
CutSimple ==
    /\ tokenCut = NotCut
    /\ tokenCut' = [fn |-> "cutFirstTokenSpaceTab"] @@
                       cutFirstTokenSpaceTab(tokenLine)
    /\ UNCHANGED tokenFrame

\* tok, rest, err := cutFirstTokenSmart(s)
CutSmart ==
    /\ tokenCut = NotCut
    /\ tokenCut' = [fn |-> "cutFirstTokenSmart"] @@
                       cutFirstTokenSmart(tokenLine)
    /\ UNCHANGED tokenFrame

TokenNext ==
    \/ CutSimple
    \/ CutSmart

TokenSpec == TokenInit /\ [][TokenNext]_vars

(***************************************************************************)
(* The reaper with no client command under way: the stores hold what       *)
(* earlier SET commands with a TTL left in them, and only the reaper and   *)
(* the clock move.                                                         *)
(***************************************************************************)
DrainKeys == {<<97>>, <<98, 99>>, <<100>>}
\* Deadlines before, at and after the start, one of them never reached.
DrainDeadlines == {StartTime + i * MsPerSec : i \in -1 .. MaxTicks + 1}
MaxDrainEntries == 3
DrainSets ==
    UNION {[1 .. n -> DrainKeys \X DrainDeadlines] : n \in 0 .. MaxDrainEntries}

\* The stores after the completed commands SET key x ttl of a sequence:
\* keyDataSpace.Add, then keyExpirations.PushItem.
RECURSIVE AfterSets(_)
AfterSets(sets) ==
    IF sets = <<>>
    THEN [data |-> NewKeyDataSpace, exp |-> NewKeyExpirationMinHeap]
    ELSE LET n    == Len(sets)
             st   == AfterSets(SubSeq(sets, 1, n - 1))
             item == [key |-> sets[n][1], expire_timestamp |-> sets[n][2]]
         IN  [data |-> Add(st.data, item.key, <<120>>),
              exp  |-> PushItem(st.exp, item)]

DrainInit ==
    /\ InitButStores
    /\ tokenLine = <<>>
    /\ rdbFile = NoFile
    /\ \E sets \in DrainSets :
          /\ keyDataSpace = AfterSets(sets).data
          /\ keyExpirations = AfterSets(sets).exp

drainFrame == <<snapVars, lockVars, connVars, mutexVars, tokVars,
                persistVars, completed>>

Drain_Peek == Reaper_Peek /\ UNCHANGED <<drainFrame, evicted>>
Drain_Check == Reaper_Check /\ UNCHANGED <<drainFrame, evicted>>
Drain_Remove == Reaper_Remove /\ UNCHANGED <<drainFrame, evicted>>

\* History: the entry PopMin took out of the index.
Drain_PopMin ==
    /\ Reaper_PopMin
    /\ evicted' = Append(evicted, PopMin(keyExpirations).item)
    /\ UNCHANGED drainFrame

\* History: a sleep ends the drain.
Drain_Sleep ==
    /\ Reaper_Sleep
    /\ evicted' = <<>>
    /\ UNCHANGED drainFrame

Drain_Tick == Tick /\ UNCHANGED <<drainFrame, evicted>>

DrainReaper ==
    \/ Drain_Peek
    \/ Drain_Check
    \/ Drain_Remove
    \/ Drain_PopMin
    \/ Drain_Sleep

DrainNext ==
    \/ Drain_Peek
    \/ Drain_Check
    \/ Drain_Remove
    \/ Drain_PopMin
    \/ Drain_Sleep
    \/ Drain_Tick

\* The Go scheduler keeps running the reaper goroutine; the clock is not
\* forced.
DrainSpec == DrainInit /\ [][DrainNext]_vars /\ WF_vars(DrainReaper)

(***************************************************************************)
(* Properties of the Expiration Index.                                     *)
(***************************************************************************)
IndexConsistent(h) ==
    /\ \A i \in 1 .. Len(h.items) :
          /\ h.items[i].key \in DOMAIN h.index
          /\ h.index[h.items[i].key] = i - 1
    /\ Cardinality(DOMAIN h.index) = Len(h.items)

HeapOrdered(h) ==
    \A i \in 1 .. (Len(h.items) - 1) :
        h.items[Parent(i) + 1].expire_timestamp <=
            h.items[i + 1].expire_timestamp

PeekIsMin(h) ==
    IF Len(h.items) = 0
    THEN ~Peek(h).ok
    ELSE /\ Peek(h).ok
         /\ \A i \in 1 .. Len(h.items) :
               Peek(h).item.expire_timestamp <= h.items[i].expire_timestamp

Unique(h) ==
    \A i, j \in 1 .. Len(h.items) :
        h.items[i].key = h.items[j].key => i = j

\* C7: heap index consistency: in every state of the Expiration Index
\* reachable by PushItem, PopMin, Remove and UpdateExpiration, every slot i
\* holds a key that the index map sends back to i, and the index map has
\* exactly len(items) entries.
C7_HeapIndexConsistency == IndexConsistent(keyExpirations)

\* A full heap on which heap.Remove of slot 3 sifts the entry it moved there
\* up, past the index entries of three keys.
C7_Witness ==
    /\ HeapLen(keyExpirations) = 6
    /\ keyExpirations.items[2].expire_timestamp = 2
    /\ keyExpirations.items[6].expire_timestamp = 1
    /\ LET r == HeapRemove(keyExpirations, keyExpirations.items[4].key)
       IN  r.ok /\ r.h.items[2] = keyExpirations.items[6]

\* C8: min order: in every state reachable by PushItem (insert or update of
\* a deadline, up or down), PopMin, Remove and UpdateExpiration, the array
\* is in binary-heap order and Peek returns an entry whose deadline is <=
\* every stored deadline (and reports an empty heap as empty).
C8_MinOrder == HeapOrdered(keyExpirations) /\ PeekIsMin(keyExpirations)

\* Five entries of both deadlines, the larger one also above a leaf.
C8_Witness ==
    /\ HeapLen(keyExpirations) = 5
    /\ Peek(keyExpirations).item.expire_timestamp = 1
    /\ keyExpirations.items[2].expire_timestamp = 2
    /\ keyExpirations.items[3].expire_timestamp = 1
    /\ keyExpirations.items[5].expire_timestamp = 2

\* C9: expiration uniqueness: no key occupies two slots of the Expiration
\* Index; a PushItem of a key already stored leaves Len unchanged and makes
\* the key's stored deadline the new one; a PushItem of a key not stored
\* increases Len by exactly one; stated of PushItem applied to every
\* reachable state of the Expiration Index.
C9_PushItemEffect(h) ==
    \A k \in HeapKeys, d \in HeapDeadlines :
        LET pushed == PushItem(h, [key |-> k, expire_timestamp |-> d])
        IN  /\ FindExpiration(pushed, k) = [ts |-> d, ok |-> TRUE]
            /\ HeapLen(pushed) =
                   IF Stored(h, k) THEN HeapLen(h) ELSE HeapLen(h) + 1

C9_ExpirationUniqueness ==
    /\ Unique(keyExpirations)
    /\ C9_PushItemEffect(keyExpirations)

\* Three entries; pushing the root's key again with a later deadline moves
\* it off the root, and pushing a fourth key lengthens the heap.
C9_Witness ==
    /\ HeapLen(keyExpirations) = 3
    /\ Peek(keyExpirations).item.expire_timestamp = 1
    /\ keyExpirations.items[3].expire_timestamp = 1
    /\ LET k == Peek(keyExpirations).item.key
           pushed == PushItem(keyExpirations,
                              [key |-> k, expire_timestamp |-> 2])
       IN  /\ pushed.index[k] # 0
           /\ HeapLen(pushed) = 3
    /\ \E k \in HeapKeys : ~Stored(keyExpirations, k)

(***************************************************************************)
(* Properties of the snapshot engine.                                      *)
(***************************************************************************)
\* A FindExpiration result up to the equivalence of "no entry", NO_EXP_TS
\* and math.MaxInt64.
Deadline(f) ==
    IF ~f.ok \/ f.ts = NO_EXP_TS \/ f.ts = MaxInt64 THEN NO_EXP_TS ELSE f.ts

\* A snapshot begun in a quiescent state has been written, no store has
\* changed since it began, no deadline held by the Expiration Index has been
\* reached, and a fresh process has been started on the file.
RoundTripDone ==
    /\ restored.ok
    /\ quiet
    /\ ~reached
    /\ spc = "Wait"

\* C10: persistence round-trip: after commands whose deadlines are "never" or
\* still in the future, a snapshot taken in a quiescent state and restored
\* into a fresh instance gives, for every key, the same GET result and the
\* same FindExpiration result (INT64_MAX and "no deadline" being equal).
C10_PersistenceRoundTrip ==
    RoundTripDone =>
        \A k \in Keys :
            /\ Get(restored.data, k) = Get(keyDataSpace, k)
            /\ Deadline(FindExpiration(restored.exp, k)) =
                   Deadline(FindExpiration(keyExpirations, k))

\* The complete entries of a snapshot file, in file order, up to the first
\* read that fails.
RECURSIVE SnapshotEntries(_, _)
SnapshotEntries(f, pos) ==
    LET e == readRdbEntry(f, pos)
    IN  IF e.err # "nil" THEN <<>>
        ELSE <<[key |-> e.key, data |-> e.data, exp |-> e.exp]>> \o
             SnapshotEntries(f, e.pos)

\* C11: no snapshot entry is ever written with deadline INT64_MAX (such a
\* deadline is persisted as NO_EXP_TS), so a fresh process started on the
\* file holds no Expiration Index entry for a key that was SET without TTL.
C11_NoMaxInt64Persisted ==
    /\ \A i \in 1 .. Len(SnapshotEntries(rdbFile.bytes, 0)) :
           SnapshotEntries(rdbFile.bytes, 0)[i].exp # MaxInt64
    /\ restored.ok =>
           \A k \in Keys :
               LET f == FindExpiration(restored.exp, k)
               IN  ~(f.ok /\ f.ts = MaxInt64)

\* C12: a partial entry is a load error: tryLoadRdbFile returns nil only
\* when the file is a concatenation of complete entries, and reports an error
\* for a file cut short anywhere inside an entry, field boundaries included.
C12_PartialEntryIsLoadError ==
    (restored.ok /\ rdbFile.regular) =>
        (restored.err = "nil" <=> rdbFile.bytes \in CompleteFiles)

\* C13: a failed startup restore is fatal: the server never goes on to serve
\* (reaper, snapshot goroutine, accept loop) after tryLoadRdbFile failed.
C13_FailedRestoreIsFatal == restored.serving => restored.err = "nil"

\* The file bytes b are a complete snapshot of the Keyspace copy m: they
\* decode, with nothing left over, to one entry per key of m with m's value.
IsSnapshotOf(b, m) ==
    LET es == SnapshotEntries(b, 0)
    IN  /\ b = Concat([i \in 1 .. Len(es) |->
                         writeRdbEntry(es[i].key, es[i].data, es[i].exp)])
        /\ Len(es) = Cardinality(DOMAIN m)
        /\ {es[i].key : i \in 1 .. Len(es)} = DOMAIN m
        /\ \A i \in 1 .. Len(es) : es[i].data = m[es[i].key]

\* Whenever a step changes an existing snapshot file, the file becomes the
\* complete new snapshot.
C14_FileStep ==
    (rdbFile.exists /\ rdbFile' # rdbFile) =>
        IsSnapshotOf(rdbFile'.bytes, copyOfKeyDataSpace)

\* C14: snapshot writes are atomic with respect to the file: at every point
\* of a snapshot tick the file holds either the complete previous snapshot
\* or the complete new one, never an empty or partial file in its place.
C14_SnapshotWriteAtomic == [][C14_FileStep]_vars

\* Caller i is inside the critical section of saveRDBFile, of tryLoadRdbFile.
InSave(i) == callPc[i] \in {"save_locked", "save_opened", "save_flushed"}
InLoad(i) == callPc[i] \in {"load_locked", "load_read"}

Expected ==
    \* " \t": "ERR: empty command"
    (<<32, 9>> :>
        {<<69, 82, 82, 58, 32, 101, 109, 112, 116, 121, 32, 99, 111, 109,
           109, 97, 110, 100>>}) @@
    \* "GET a": "x" or "ERR: No such KEY is present: a"
    (<<71, 69, 84, 32, 97>> :>
        {<<120>>,
         <<69, 82, 82, 58, 32, 78, 111, 32, 115, 117, 99, 104, 32, 75, 69,
           89, 32, 105, 115, 32, 112, 114, 101, 115, 101, 110, 116, 58, 32,
           97>>}) @@
    \* "get bc": "x" or ""y z"" or "ERR: No such KEY is present: bc"
    (<<103, 101, 116, 32, 98, 99>> :>
        {<<120>>,
         <<34, 121, 32, 122, 34>>,
         <<69, 82, 82, 58, 32, 78, 111, 32, 115, 117, 99, 104, 32, 75, 69,
           89, 32, 105, 115, 32, 112, 114, 101, 115, 101, 110, 116, 58, 32,
           98, 99>>}) @@
    \* "GET": "ERR: command parsing error: missing token"
    (<<71, 69, 84>> :>
        {<<69, 82, 82, 58, 32, 99, 111, 109, 109, 97, 110, 100, 32, 112,
           97, 114, 115, 105, 110, 103, 32, 101, 114, 114, 111, 114, 58,
           32, 109, 105, 115, 115, 105, 110, 103, 32, 116, 111, 107, 101,
           110>>}) @@
    \* "SET a x": "OK"
    (<<83, 69, 84, 32, 97, 32, 120>> :>
        {<<79, 75>>}) @@
    \* "SET a x 1": "OK"
    (<<83, 69, 84, 32, 97, 32, 120, 32, 49>> :>
        {<<79, 75>>}) @@
    \* "set bc "y z" -1": "OK"
    (<<115, 101, 116, 32, 98, 99, 32, 34, 121, 32, 122, 34, 32, 45, 49>> :>
        {<<79, 75>>}) @@
    \* "SET bc x 0": "OK"
    (<<83, 69, 84, 32, 98, 99, 32, 120, 32, 48>> :>
        {<<79, 75>>}) @@
    \* "SET a x zz": "ERR: command parsing error: strconv.ParseInt: parsing "zz": invalid syntax"
    (<<83, 69, 84, 32, 97, 32, 120, 32, 122, 122>> :>
        {<<69, 82, 82, 58, 32, 99, 111, 109, 109, 97, 110, 100, 32, 112,
           97, 114, 115, 105, 110, 103, 32, 101, 114, 114, 111, 114, 58,
           32, 115, 116, 114, 99, 111, 110, 118, 46, 80, 97, 114, 115, 101,
           73, 110, 116, 58, 32, 112, 97, 114, 115, 105, 110, 103, 32, 34,
           122, 122, 34, 58, 32, 105, 110, 118, 97, 108, 105, 100, 32, 115,
           121, 110, 116, 97, 120>>}) @@
    \* "SET a "x": "ERR: command parsing error: malformed token"
    (<<83, 69, 84, 32, 97, 32, 34, 120>> :>
        {<<69, 82, 82, 58, 32, 99, 111, 109, 109, 97, 110, 100, 32, 112,
           97, 114, 115, 105, 110, 103, 32, 101, 114, 114, 111, 114, 58,
           32, 109, 97, 108, 102, 111, 114, 109, 101, 100, 32, 116, 111,
           107, 101, 110>>}) @@
    \* "SET bc {x": "ERR: command parsing error: malformed token"
    (<<83, 69, 84, 32, 98, 99, 32, 123, 120>> :>
        {<<69, 82, 82, 58, 32, 99, 111, 109, 109, 97, 110, 100, 32, 112,
           97, 114, 115, 105, 110, 103, 32, 101, 114, 114, 111, 114, 58,
           32, 109, 97, 108, 102, 111, 114, 109, 101, 100, 32, 116, 111,
           107, 101, 110>>}) @@
    \* "SET a": "ERR: command parsing error: missing token"
    (<<83, 69, 84, 32, 97>> :>
        {<<69, 82, 82, 58, 32, 99, 111, 109, 109, 97, 110, 100, 32, 112,
           97, 114, 115, 105, 110, 103, 32, 101, 114, 114, 111, 114, 58,
           32, 109, 105, 115, 115, 105, 110, 103, 32, 116, 111, 107, 101,
           110>>}) @@
    \* "DEL a": "OK"
    (<<68, 69, 76, 32, 97>> :>
        {<<79, 75>>}) @@
    \* "SETEXP a 1": "OK" or "ERR: you tried to update expiration for a non existing key"
    (<<83, 69, 84, 69, 88, 80, 32, 97, 32, 49>> :>
        {<<79, 75>>,
         <<69, 82, 82, 58, 32, 121, 111, 117, 32, 116, 114, 105, 101, 100,
           32, 116, 111, 32, 117, 112, 100, 97, 116, 101, 32, 101, 120,
           112, 105, 114, 97, 116, 105, 111, 110, 32, 102, 111, 114, 32,
           97, 32, 110, 111, 110, 32, 101, 120, 105, 115, 116, 105, 110,
           103, 32, 107, 101, 121>>}) @@
    \* "SETEXP bc 1": "OK" or "ERR: you tried to update expiration for a non existing key"
    (<<83, 69, 84, 69, 88, 80, 32, 98, 99, 32, 49>> :>
        {<<79, 75>>,
         <<69, 82, 82, 58, 32, 121, 111, 117, 32, 116, 114, 105, 101, 100,
           32, 116, 111, 32, 117, 112, 100, 97, 116, 101, 32, 101, 120,
           112, 105, 114, 97, 116, 105, 111, 110, 32, 102, 111, 114, 32,
           97, 32, 110, 111, 110, 32, 101, 120, 105, 115, 116, 105, 110,
           103, 32, 107, 101, 121>>}) @@
    \* "ESC": "closing connection."
    (<<69, 83, 67>> :>
        {<<99, 108, 111, 115, 105, 110, 103, 32, 99, 111, 110, 110, 101,
           99, 116, 105, 111, 110, 46>>}) @@
    \* "eSc now": "closing connection."
    (<<101, 83, 99, 32, 110, 111, 119>> :>
        {<<99, 108, 111, 115, 105, 110, 103, 32, 99, 111, 110, 110, 101,
           99, 116, 105, 111, 110, 46>>}) @@
    \* "FOO a": "ERR: unknown command: FOO"
    (<<70, 79, 79, 32, 97>> :>
        {<<69, 82, 82, 58, 32, 117, 110, 107, 110, 111, 119, 110, 32, 99,
           111, 109, 109, 97, 110, 100, 58, 32, 70, 79, 79>>}) @@
    \* "PING": "PONG"
    (<<80, 73, 78, 71>> :>
        {<<80, 79, 78, 71>>})

PossibleResponses(line) ==
    IF line \in DOMAIN Expected THEN Expected[line] ELSE {}

\* C16: framing and order on one connection: every non-empty request line
\* read gets exactly one response line, empty lines get none, and the i-th
\* response is the result of the i-th non-empty request (a request is read
\* only after the previous response was written).
C16_FramingAndOrder ==
    \A c \in ConnClients :
        /\ Len(out) = Len(inp) - (IF pc[c] \in {"idle", "closed"} THEN 0
                                  ELSE 1)
        /\ \A i \in 1 .. Len(out) : out[i] \in PossibleResponses(inp[i])

\* Two different requests have been answered, each with its own response.
C16_Witness ==
    /\ Len(out) = 2
    /\ Len(inp) = 2
    /\ inp[1] # inp[2]
    /\ out[1] # out[2]
    /\ out[2] \notin PossibleResponses(inp[1])

\* The command word of line is ESC in some letter case.
EscWords == {<<e, s, c>> : e \in {69, 101}, s \in {83, 115}, c \in {67, 99}}
HasEscWord(line) ==
    /\ Len(line) >= 3
    /\ SubSeq(line, 1, 3) \in EscWords
    /\ Len(line) > 3 => isSpaceTab(line[4])

\* The step reads a non-empty request line from the connection.
ReadsLine == inp' # inp
LineRead == inp'[Len(inp')]

C17_EscStep ==
    \A c \in ConnClients :
        /\ (ReadsLine /\ HasEscWord(LineRead)) =>
               /\ out' = Append(out, S_Closing)
               /\ pc'[c] = "closed"
               /\ keyDataSpace' = keyDataSpace
               /\ keyExpirations' = keyExpirations
        /\ pc[c] = "closed" =>
               /\ pc'[c] = "closed"
               /\ issued' = issued
               /\ inp' = inp
               /\ out' = out
               /\ reply'[c] = reply[c]

\* C17: ESC closes the connection: a line whose command word is ESC in any
\* letter case, with or without arguments, is answered with
\* "closing connection.", closes the connection and changes neither store;
\* no later line of the connection is read, executed or answered.
C17_EscCloses == [][C17_EscStep]_vars

\* A command was answered, then ESC with an argument closed the connection.
C17_Witness ==
    /\ pc[1] = "closed"
    /\ Len(inp) = 2
    /\ inp[2] = <<101, 83, 99, 32, 110, 111, 119>>
    /\ out[2] = S_Closing
    /\ out[1] # S_Closing

\* The request lines that fail whatever the stores hold:
\*   "GET" (missing token)
\*   "SET a" (missing token)
\*   "SET a "x" (malformed quoted value)
\*   "SET bc {x" (malformed block value)
\*   "SET a x zz" (non-integer TTL)
\*   "FOO a" (unknown command word)
FailureLines ==
    {<<71, 69, 84>>,
     <<83, 69, 84, 32, 97>>,
     <<83, 69, 84, 32, 97, 32, 34, 120>>,
     <<83, 69, 84, 32, 98, 99, 32, 123, 120>>,
     <<83, 69, 84, 32, 97, 32, 120, 32, 122, 122>>,
     <<70, 79, 79, 32, 97>>}

\* The key each GET line of the runs asks for.
GetLineKey == (<<71, 69, 84, 32, 97>> :> <<97>>) @@
              (<<103, 101, 116, 32, 98, 99>> :> <<98, 99>>)

BeginsWithERR(line) == Len(line) >= 3 /\ SubSeq(line, 1, 3) = <<69, 82, 82>>

\* The step writes exactly one response line, which begins with ERR, and
\* leaves connection c open and ready for its next line.
AnswersERR(c) ==
    /\ Len(out') = Len(out) + 1
    /\ SubSeq(out', 1, Len(out)) = out
    /\ BeginsWithERR(out'[Len(out')])
    /\ pc'[c] = "idle"

C18_FailureStep ==
    \A c \in ConnClients :
        /\ (ReadsLine /\ LineRead \in FailureLines) => AnswersERR(c)
        /\ (/\ ReadsLine
            /\ LineRead \in DOMAIN GetLineKey
            /\ ~InKeyspace(GetLineKey[LineRead])) => AnswersERR(c)
        /\ (/\ pc[c] = "SETEXP_Update"
            /\ pc'[c] # "SETEXP_Update"
            /\ ~InIndex(cur[c].key)) => AnswersERR(c)

\* C18: every command-level failure (missing token, malformed quoted or
\* block value, non-integer TTL, GET of an absent key, SETEXP of an absent
\* key, unknown command word) produces exactly one reply line, beginning
\* with ERR, and the connection stays open for the next request line.
C18_FailuresAnswerERR == [][C18_FailureStep]_vars

\* A failing line was answered with ERR and the next line was served.
C18_Witness ==
    /\ Len(out) = 2
    /\ inp[1] \in FailureLines
    /\ BeginsWithERR(out[1])
    /\ inp[2] = <<80, 73, 78, 71>>
    /\ out[2] = S_PONG
    /\ pc[1] = "idle"

\* The arguments of each SET line of the runs that parses.
SetLineArgs ==
    \* "SET a x"
    (<<83, 69, 84, 32, 97, 32, 120>> :>
        [key |-> <<97>>, value |-> <<120>>, hasTtl |-> FALSE, ttl |-> 0]) @@
    \* "SET a x 1"
    (<<83, 69, 84, 32, 97, 32, 120, 32, 49>> :>
        [key |-> <<97>>, value |-> <<120>>, hasTtl |-> TRUE, ttl |-> 1]) @@
    \* "set bc "y z" -1"
    (<<115, 101, 116, 32, 98, 99, 32, 34, 121, 32, 122, 34, 32, 45, 49>> :>
        [key |-> <<98, 99>>, value |-> <<34, 121, 32, 122, 34>>, hasTtl |-> TRUE, ttl |-> -1]) @@
    \* "SET bc x 0"
    (<<83, 69, 84, 32, 98, 99, 32, 120, 32, 48>> :>
        [key |-> <<98, 99>>, value |-> <<120>>, hasTtl |-> TRUE, ttl |-> 0])

\* The deadline SET is to store for a TTL argument read at time t.
PrescribedDeadline(t, a) ==
    IF ~a.hasTtl \/ a.ttl = -1 THEN MaxInt64 ELSE t + a.ttl * 1000

\* The Expiration Index h holds exactly one entry for k, with deadline d.
HoldsExactly(h, k, d) ==
    /\ Cardinality({i \in 1 .. Len(h.items) : h.items[i].key = k}) = 1
    /\ \A i \in 1 .. Len(h.items) :
           h.items[i].key = k => h.items[i].expire_timestamp = d
    /\ k \in DOMAIN h.index
    /\ h.items[h.index[k] + 1].key = k

C19_SetStep ==
    \A c \in ConnClients :
        /\ (ReadsLine /\ LineRead \in DOMAIN SetLineArgs) =>
               LET a == SetLineArgs[LineRead]
               IN  /\ cur'[c].op = "SET"
                   /\ cur'[c].key = a.key
                   /\ cur'[c].value = a.value
                   /\ cur'[c].ts = PrescribedDeadline(now, a)
        /\ (pc[c] = "SET_PushItem" /\ pc'[c] = "idle") =>
               /\ out' = Append(out, S_OK)
               /\ HoldsExactly(keyExpirations', cur[c].key, cur[c].ts)
               /\ Get(keyDataSpace', cur[c].key) =
                      [found |-> TRUE, value |-> cur[c].value]

\* C19: SET stores the deadline prescribed by its TTL argument: when
\* SET K V [ttl] replies OK, Keyspace[K] = V and the Expiration Index holds
\* exactly one entry for K, with deadline INT64_MAX when ttl is omitted or
\* -1 and now_ms + ttl*1000 otherwise, whatever K held before.
C19_SetStoresDeadline == [][C19_SetStep]_vars

\* The SETEXP lines of the runs, as read.
SetexpLines ==
    {<<83, 69, 84, 69, 88, 80, 32, 97, 32, 49>>,        \* "SETEXP a 1"
     <<83, 69, 84, 69, 88, 80, 32, 98, 99, 32, 49>>}    \* "SETEXP bc 1"

\* The whole line SETEXP answers for a key without an index entry.
S_SetexpRefused == S_ErrPrefix \o S_NoSuchExpiration

\* The step in which SETEXP calls UpdateExpiration and replies, taken while
\* the key has no entry in the Expiration Index.
C20_SetexpStep ==
    \A c \in ConnClients :
        (/\ pc[c] = "SETEXP_Update"
         /\ pc'[c] # "SETEXP_Update"
         /\ cur[c].key \notin DOMAIN keyExpirations.index) =>
            /\ out' = Append(out, S_SetexpRefused)
            /\ keyExpirations' = keyExpirations
            /\ keyDataSpace' = keyDataSpace

\* C20: SETEXP on a key with no Expiration Index entry replies
\* "ERR: you tried to update expiration for a non existing key" and is a
\* no-op: it creates no index entry and changes neither store.
C20_SetexpAbsentIsNoOp == [][C20_SetexpStep]_vars

\* SETEXP was sent for a key never set and was refused, the stores empty.
C20_Witness ==
    /\ Len(inp) = 1
    /\ inp[1] \in SetexpLines
    /\ out = <<S_SetexpRefused>>
    /\ pc[1] = "idle"
    /\ keyExpirations.items = <<>>
    /\ keyDataSpace = << >>

\* The step in which SETEXP calls UpdateExpiration and replies, taken for a
\* key that GET would return at that moment.
C21_SetexpStep ==
    \A c \in RdbClients :
        (/\ pc[c] = "SETEXP_Update"
         /\ pc'[c] # "SETEXP_Update"
         /\ Get(keyDataSpace, cur[c].key).found) =>
            /\ reply'[c] = ReplyOK
            /\ FindExpiration(keyExpirations', cur[c].key) =
                   [ts |-> cur[c].ts, ok |-> TRUE]

\* C21: SETEXP fails as a lookup miss only for absent keys: for every key
\* that GET would currently return, keys restored from a snapshot entry
\* whose deadline is NO_EXP_TS included, SETEXP K ttl replies OK and sets
\* the key's deadline to now_ms + ttl*1000.
C21_SetexpKnowsEveryKey == [][C21_SetexpStep]_vars

\* C22: an Expiration Index entry lives exactly as long as its key: in every
\* state in which no command and no reaper step is in progress, a key
\* created by SET is in the Expiration Index if and only if it is in the
\* Keyspace, whatever the interleaving of SET, DEL, SETEXP and the reaper.
C22_IndexEntryLivesWithKey ==
    Quiescent => \A k \in Keys : InIndex(k) <=> InKeyspace(k)

\* Goroutine t, waiting for a lock, can take it now.
CanAcquire(t) ==
    IF Top(t).mode = "R" THEN CanRLock(mu[Top(t).lock])
    ELSE CanLock(mu[Top(t).lock])

\* Goroutine u holds lock l and is not itself waiting for a lock.
RunningHolder(u, l) ==
    /\ \E i \in 1 .. Len(locks[u]) :
          locks[u][i].lock = l /\ locks[u][i].st = "held"
    /\ ~Waiting(u)

\* A goroutine waiting for a lock is not stuck: it can take the lock, or a
\* goroutine that holds it is running, or the Lock it queues behind can be
\* taken.
NotStuck(t) ==
    \/ CanAcquire(t)
    \/ \E u \in Tasks \ {t} : RunningHolder(u, Top(t).lock)
    \/ \E u \in Tasks \ {t} :
          Waiting(u) /\ Top(u).lock = Top(t).lock /\ CanAcquire(u)

\* C23: lock discipline and deadlock freedom: no task requests the Keyspace
\* lock while holding the Expiration Index lock, no task has more than two
\* locks at a time, and in no reachable state of connection handler,
\* reaper and snapshot task is a task blocked forever on a lock.
C23_LockDiscipline ==
    \A t \in Tasks :
        /\ \A i, j \in 1 .. Len(locks[t]) :
               (i < j /\ locks[t][i].lock = "ei") => locks[t][j].lock # "ks"
        /\ Len(locks[t]) <= 2
        /\ Waiting(t) => NotStuck(t)

\* The handler waits for the Keyspace lock that the snapshot task holds
\* inside DeepCopy, and the reaper waits for the Expiration Index.
C23_Witness ==
    /\ Waiting(1)
    /\ Top(1).lock = "ks"
    /\ ~CanAcquire(1)
    /\ Holding(SnapTask, "ks", "R")
    /\ Waiting(ReaperTask)

\* C24: the non-locking heap operations and the raw heap array are only
\* accessed by a task that holds the Expiration Index lock: no task reads
\* them unlocked while another task is inside PushItem, PopMin or Remove.
C24_HeapArrayReadUnderLock ==
    \A c \in printer :
        \A t \in Tasks \ {c} : ~Holding(t, "ei", "W")

\* The step in which Keyspace.DeepCopy returns, and the steps that write to
\* the Keyspace or to a copy.
C25_DeepCopyStep ==
    /\ (spc = "DeepCopyRange" /\ spc' = "DeepCopyExp") =>
           copyOfKeyDataSpace' \in seen
    /\ keyDataSpace' # keyDataSpace =>
           /\ copyOfKeyDataSpace' = copyOfKeyDataSpace
           /\ clonedData' = clonedData

\* C25: Keyspace.DeepCopy returns the exact content the Keyspace had at one
\* single instant between the call and its return, for any interleaving
\* with concurrent Add and Remove, and the copy is independent: a write to
\* the original never changes the copy, a write to the copy never changes
\* the original.
C25_DeepCopyConsistent == [][C25_DeepCopyStep]_vars

\* DeepCopy is half way through a Keyspace of two keys while a task waits
\* to write to the Keyspace.
C25_Witness ==
    /\ spc = "DeepCopyRange"
    /\ Cardinality(DOMAIN clonedData) = 1
    /\ Cardinality(rangeLeft) = 1
    /\ \E t \in Tasks :
          Waiting(t) /\ Top(t).lock = "ks" /\ Top(t).mode = "W"

\* The separators, and the strings made of separators only.
Separators == {32, 9}
OnlySeparators(s) == \A p \in 1 .. Len(s) : s[p] \in Separators

\* s is separators up to i, a token from i up to j, the separators that
\* follow it up to k, and the remainder from k on.
SplitsAt(s, i, j, k, tok, rest) ==
    /\ \A p \in 1 .. i - 1 : s[p] \in Separators
    /\ \A p \in j .. k - 1 : s[p] \in Separators
    /\ k <= Len(s) => s[k] \notin Separators
    /\ tok = SubSeq(s, i, j - 1)
    /\ rest = SubSeq(s, k, Len(s))

\* C26: CutSimple on any input fails only with NoToken and only when the
\* input holds nothing but spaces and tabs; otherwise the token is the
\* maximal run of non-separator bytes after the leading separators and the
\* remainder is the input after the token and the separators that follow
\* it.  It never fails with Malformed.
C26_CutSimpleContract ==
    tokenCut.fn = "cutFirstTokenSpaceTab" =>
        LET s == tokenLine
        IN  /\ tokenCut.err \in {"nil", "ErrNoToken"}
            /\ tokenCut.err = "ErrNoToken" <=> OnlySeparators(s)
            /\ tokenCut.err = "nil" =>
                   \E i \in 1 .. Len(s), j \in 2 .. Len(s) + 1,
                      k \in 2 .. Len(s) + 1 :
                       /\ i < j
                       /\ j <= k
                       /\ \A p \in i .. j - 1 : s[p] \notin Separators
                       /\ j <= Len(s) => s[j] \in Separators
                       /\ SplitsAt(s, i, j, k, tokenCut.tok, tokenCut.rest)

\* CutSimple of " a\ta" is ("a", "a").
C26_Witness ==
    /\ tokenLine = <<32, 97, 9, 97>>
    /\ tokenCut = [fn |-> "cutFirstTokenSpaceTab", tok |-> <<97>>,
                   rest |-> <<97>>, err |-> "nil"]

\* The backslashes that end right before position p, after position lo.
RECURSIVE BackslashRun(_, _, _)
BackslashRun(s, lo, p) ==
    IF p - 1 > lo /\ s[p - 1] = 92 THEN 1 + BackslashRun(s, lo, p - 1) ELSE 0

\* The quoted string opened at i is closed at j by a non-escaped quote.
ClosedAt(s, i, j) ==
    /\ s[j] = 34
    /\ BackslashRun(s, i, j) % 2 = 0

\* The depths and the within-string flag after one more byte b.
DepthStep(st, b) ==
    IF st.inString
    THEN [st EXCEPT !.inString = st.escaped \/ b # 34,
                    !.escaped = ~st.escaped /\ b = 92]
    ELSE [brace    |-> st.brace + (IF b = 123 THEN 1 ELSE 0)
                               - (IF b = 125 THEN 1 ELSE 0),
          bracket  |-> st.bracket + (IF b = 91 THEN 1 ELSE 0)
                                  - (IF b = 93 THEN 1 ELSE 0),
          inString |-> b = 34,
          escaped  |-> FALSE]

\* The depths, counted outside strings, after the bytes i .. p of s.
RECURSIVE DepthsAfter(_, _, _)
DepthsAfter(s, i, p) ==
    IF p < i
    THEN [brace |-> 0, bracket |-> 0, inString |-> FALSE, escaped |-> FALSE]
    ELSE DepthStep(DepthsAfter(s, i, p - 1), s[p])

DepthZero(s, i, p) ==
    DepthsAfter(s, i, p).brace = 0 /\ DepthsAfter(s, i, p).bracket = 0

\* The block opened at i has both depths back to zero at j, none of them
\* having gone below zero.
BalancedAt(s, i, j) ==
    /\ DepthZero(s, i, j)
    /\ \A p \in i .. j : /\ DepthsAfter(s, i, p).brace >= 0
                         /\ DepthsAfter(s, i, p).bracket >= 0

\* s, after its leading separators, starts with a bare token, a closed
\* quoted string or a balanced block.
ValidStart(s) ==
    \E i \in 1 .. Len(s) :
        /\ \A p \in 1 .. i - 1 : s[p] \in Separators
        /\ s[i] \notin Separators
        /\ s[i] = 34 => \E j \in i + 1 .. Len(s) : ClosedAt(s, i, j)
        /\ s[i] \in {123, 91} => \E j \in i .. Len(s) : BalancedAt(s, i, j)

\* C27 as stated: CutSmart(s) succeeds if and only if s, after leading
\* spaces and tabs, starts with a valid bare token, a quoted string closed
\* by a non-escaped quote, or a block whose brace and bracket depths both
\* return to zero; and every token it returns has brace depth zero and
\* bracket depth zero.
C27_CutSmartBalanced ==
    tokenCut.fn = "cutFirstTokenSmart" =>
        /\ tokenCut.err = "nil" <=> ValidStart(tokenLine)
        /\ tokenCut.err = "nil" =>
               DepthZero(tokenCut.tok, 1, Len(tokenCut.tok))

\* C27, amended: CutSmart(s) succeeds if and only if s starts, after its
\* leading spaces and tabs, with a bare token, a closed quoted string or a
\* balanced block; and every token it returns that begins with a brace or
\* a bracket has brace depth zero and bracket depth zero.
C27_CutSmartBalancedBlocks ==
    tokenCut.fn = "cutFirstTokenSmart" =>
        /\ tokenCut.err = "nil" <=> ValidStart(tokenLine)
        /\ (tokenCut.err = "nil" /\ tokenCut.tok[1] \in {123, 91}) =>
               DepthZero(tokenCut.tok, 1, Len(tokenCut.tok))

\* CutSmart of "[{}]" is the whole block.
C27_Witness ==
    /\ tokenLine = <<91, 123, 125, 93>>
    /\ tokenCut = [fn |-> "cutFirstTokenSmart", tok |-> tokenLine,
                   rest |-> <<>>, err |-> "nil"]

\* The deadline the copy of the Expiration Index holds for a key.
CopiedDeadline(key) ==
    LET f == FindExpiration(copyOfKeyExpirationSpace, key)
    IN  IF f.ok THEN f.ts ELSE NO_EXP_TS

C28_WriteStep ==
    (spc = "Write" /\ todo' # todo) =>
        \E key \in todo :
            /\ todo' = todo \ {key}
            /\ writer' = writer \o writeRdbEntry(key, copyOfKeyDataSpace[key],
                                                 CopiedDeadline(key))

\* C28: a snapshot uses only the two copies taken at the start of its tick:
\* every entry written carries the deadline its key has in the copy of the
\* Expiration Index, NO_EXP_TS when the copy has none, whatever happened
\* to the live index since.
C28_SnapshotUsesItsCopies == [][C28_WriteStep]_vars

\* The abstract map of a heap: each key of the array to its deadline.
AbsMap(h) ==
    LET keys == {h.items[i].key : i \in 1 .. Len(h.items)}
    IN  [k \in keys |->
            h.items[CHOOSE i \in 1 .. Len(h.items) :
                        h.items[i].key = k].expire_timestamp]

\* The pairs of the array, as a multiset, are the pairs of the map.
PairsAreMap(h) == Len(h.items) = Cardinality(DOMAIN AbsMap(h))

AbsAssign(m, k, d) == [x \in DOMAIN m \cup {k} |-> IF x = k THEN d ELSE m[x]]
AbsDelete(m, k) == [x \in DOMAIN m \ {k} |-> m[x]]

PushItemRefines(h, k, d) ==
    LET n == PushItem(h, [key |-> k, expire_timestamp |-> d])
    IN  /\ AbsMap(n) = AbsAssign(AbsMap(h), k, d)
        /\ PairsAreMap(n)

PopMinRefines(h) ==
    LET m == AbsMap(h)
        r == PopMin(h)
    IN  IF DOMAIN m = {}
        THEN r = [h |-> h, item |-> ZeroKeyExpiration, ok |-> FALSE]
        ELSE /\ r.ok
             /\ r.item.key \in DOMAIN m
             /\ r.item.expire_timestamp = m[r.item.key]
             /\ \A k \in DOMAIN m : r.item.expire_timestamp <= m[k]
             /\ AbsMap(r.h) = AbsDelete(m, r.item.key)
             /\ PairsAreMap(r.h)

RemoveRefines(h, k) ==
    LET m == AbsMap(h)
        r == HeapRemove(h, k)
    IN  IF k \notin DOMAIN m
        THEN r = [h |-> h, item |-> ZeroKeyExpiration, ok |-> FALSE]
        ELSE /\ r.ok
             /\ r.item = [key |-> k, expire_timestamp |-> m[k]]
             /\ AbsMap(r.h) = AbsDelete(m, k)
             /\ PairsAreMap(r.h)

\* C29: the Expiration Index refines a map from key to deadline: on every
\* reachable heap PushItem is the map assignment, PopMin returns and
\* deletes an entry of minimal deadline (or returns (zero, false) and
\* changes nothing on the empty heap), Remove(key) returns and deletes that
\* key's entry and leaves the others alone (or returns (zero, false)), and
\* the multiset of (key, deadline) pairs of the array is the map.
C29_RefinesMap ==
    /\ PairsAreMap(keyExpirations)
    /\ \A k \in HeapKeys, d \in HeapDeadlines :
          PushItemRefines(keyExpirations, k, d)
    /\ PopMinRefines(keyExpirations)
    /\ \A k \in HeapKeys : RemoveRefines(keyExpirations, k)

\* Four entries, the two deadlines both present, and the entry PopMin
\* moves to the root has to be sifted down.
C29_Witness ==
    /\ HeapLen(keyExpirations) = 4
    /\ keyExpirations.items[1].expire_timestamp = 1
    /\ keyExpirations.items[4].expire_timestamp = 2
    /\ keyExpirations.items[2].expire_timestamp = 1
    /\ PopMin(keyExpirations).h.items[1] = keyExpirations.items[2]

\* The entries whose deadline has been reached: those evicted in this
\* drain and those still in the index.
ExpiredEntries ==
    {e \in {evicted[i] : i \in 1 .. Len(evicted)} \cup
            {keyExpirations.items[i] : i \in 1 .. HeapLen(keyExpirations)} :
        e.expire_timestamp <= now}

RootExpired ==
    /\ HeapLen(keyExpirations) > 0
    /\ keyExpirations.items[1].expire_timestamp <= now

\* Evictions of a drain come in non-decreasing deadline order and are no
\* more than the expired entries.
DrainOrdered ==
    /\ \A i, j \in 1 .. Len(evicted) :
          i < j => evicted[i].expire_timestamp <= evicted[j].expire_timestamp
    /\ Len(evicted) <= Cardinality(ExpiredEntries)

\* The reaper starts a sleep only on an empty index or a root still in the
\* future, and after an eviction, which takes the entry it looked at out of
\* both stores, it looks at the next root without sleeping.
DrainStep ==
    /\ (rpc # "Sleep" /\ rpc' = "Sleep") => ~RootExpired
    /\ (rpc = "PopMin" /\ rpc' # "PopMin") =>
           /\ rpc' = "Peek"
           /\ PopMin(keyExpirations).item = keyExp
           /\ keyExp.key \notin DOMAIN keyDataSpace'
           /\ ~Stored(keyExpirations', keyExp.key)

\* C30: with no concurrent client command the reaper evicts expired
\* entries in non-decreasing deadline order, goes on to the next entry
\* without sleeping while the root is expired, sleeps only when the index is
\* empty or its root deadline is in the future, and each drain ends, after
\* at most as many evictions as there are expired entries.
C30_ReaperDrainOrder ==
    /\ []DrainOrdered
    /\ [][DrainStep]_vars
    /\ []<>(rpc = "Sleep")

\* A drain that evicted two entries of different deadlines and went to
\* sleep on a root still in the future.
C30_Witness ==
    /\ rpc = "Sleep"
    /\ Len(evicted) = 2
    /\ evicted[1].expire_timestamp < evicted[2].expire_timestamp
    /\ HeapLen(keyExpirations) = 1
    /\ ~RootExpired

\* The deadlines that stand for "never expires".
NeverFiring == {MaxInt64, NO_EXP_TS}

C31_PopStep ==
    (rpc = "PopMin" /\ rpc' # "PopMin") =>
        \A i \in 1 .. HeapLen(keyExpirations) :
            keyExpirations.items[i].expire_timestamp \in NeverFiring =>
                \E j \in 1 .. HeapLen(keyExpirations') :
                    keyExpirations'.items[j] = keyExpirations.items[i]

\* C31: never-expiring entries never fire: an entry of the Expiration
\* Index whose deadline is INT64_MAX or NO_EXP_TS is still in the index
\* after every eviction step of the reaper, whatever the time and whatever
\* else the index holds.
C31_NeverExpiringNeverFires == [][C31_PopStep]_vars

\* A step on which saveRDBFile returns and the snapshot tick ends.
TickEnds == spc # "Wait" /\ spc' = "Wait"

C32_TickStep ==
    /\ (TickEnds /\ saveErr' # "nil") =>
           /\ keyDataSpace' = keyDataSpace
           /\ keyExpirations' = keyExpirations
           /\ last_rdb_snapshot_ts' = last_rdb_snapshot_ts
    /\ last_rdb_snapshot_ts' # last_rdb_snapshot_ts =>
           (TickEnds /\ saveErr' = "nil")

\* C32: a failed snapshot is not recorded as done: the tick whose open,
\* write, flush or sync fails leaves the stores and last_rdb_snapshot_ts
\* as they were and ends back at the ticker, where the next tick starts a
\* full snapshot; last_rdb_snapshot_ts moves only on a tick whose snapshot
\* was written, flushed and synced.
C32_FailedSnapshotNotRecorded == [][C32_TickStep]_vars

C33_SetexpStep ==
    \A c \in Clients :
        (/\ pc[c] = "SETEXP_Update"
         /\ pc'[c] = "idle"
         /\ reply'[c] = ReplyOK) =>
            /\ keyDataSpace' = keyDataSpace
            /\ cur[c].key \in DOMAIN AbsMap(keyExpirations)
            /\ AbsMap(keyExpirations') =
                   AbsAssign(AbsMap(keyExpirations), cur[c].key, cur[c].ts)
            /\ \A k \in Keys \ {cur[c].key} :
                   FindExpiration(keyExpirations', k) =
                       FindExpiration(keyExpirations, k)

\* C33: SETEXP is a TTL-only change: the step on which SETEXP K ttl
\* succeeds leaves the Keyspace (its keys and every value, K's included)
\* as it was, and in the Expiration Index changes the deadline of K and
\* nothing else.
C33_SetexpOnlyChangesDeadline == [][C33_SetexpStep]_vars

\* SETEXP a -1 has answered OK on a key with a value: a deadline of one
\* second before the start is one that only SETEXP can store, and the other
\* key still has its entry.
C33_Witness ==
    /\ FindExpiration(keyExpirations, <<97>>) =
           [ts |-> StartTime - MsPerSec, ok |-> TRUE]
    /\ Get(keyDataSpace, <<97>>).found
    /\ FindExpiration(keyExpirations, <<98, 99>>).ok
    /\ \E c \in Clients : pc[c] = "idle" /\ reply[c] = ReplyOK

\* Both stores hold for key what the SET that connection c answered stored.
StoresHold(c, key) ==
    /\ Get(keyDataSpace, key) =
           [value |-> completed[c].value, found |-> TRUE]
    /\ FindExpiration(keyExpirations, key) =
           [ts |-> completed[c].ts, ok |-> TRUE]

\* C34: two SETs of one key by two connections are linearizable: once both
\* have answered OK and no command is under way, a key that both stores
\* hold has its value and its deadline from the same one of the two SETs.
C34_ConcurrentSetsLinearizable ==
    \A c1, c2 \in Clients :
        (/\ c1 # c2
         /\ \A c \in Clients : pc[c] = "idle"
         /\ completed[c1].op = "SET"
         /\ completed[c2].op = "SET"
         /\ completed[c1].key = completed[c2].key
         /\ InKeyspace(completed[c1].key)
         /\ InIndex(completed[c1].key)) =>
            \/ StoresHold(c1, completed[c1].key)
            \/ StoresHold(c2, completed[c1].key)

C35_EvictStep ==
    (rpc = "PopMin" /\ rpc' # "PopMin") =>
        (PopMin(keyExpirations).ok =>
            PopMin(keyExpirations).item.key = keyExp.key)

\* C35: each eviction removes one and the same key from both stores: in
\* every interleaving with client commands the entry PopMin takes out of
\* the Expiration Index has the key the reaper saw in Peek and has just
\* removed from the Keyspace.
C35_EvictionRemovesOneKey == [][C35_EvictStep]_vars

C36_ParseStep ==
    (pc[1] = "idle" /\ pc'[1] \in {"SET_Add", "SETEXP_Update"}) =>
        cur'[1].ts >= now

\* C36: TTL arithmetic does not wrap: for every non-negative ttl that SET
\* or SETEXP accepts, the deadline the command computes and goes on to
\* store is >= the time at which it was computed.
C36_TtlArithmeticDoesNotWrap == [][C36_ParseStep]_vars

\* The requests SETEXP K that carry no ttl token.
SetexpNoTtl ==
    {<<83, 69, 84, 69, 88, 80, 32, 97>>,          \* "SETEXP a"
     <<83, 69, 84, 69, 88, 80, 32, 98, 99>>}      \* "SETEXP bc"

C37_SetexpStep ==
    \A c \in ConnClients :
        (/\ pc[c] = "SETEXP_Update"
         /\ pc'[c] # "SETEXP_Update"
         /\ inp # <<>>
         /\ inp[Len(inp)] \in SetexpNoTtl) =>
            /\ reply'[c].err
            /\ keyExpirations' = keyExpirations

\* C37: SETEXP changes a deadline only when a TTL argument is supplied:
\* the request SETEXP K with no ttl token is answered with an error and
\* leaves the deadline of K, and the whole Expiration Index, as it was.
C37_SetexpNeedsTtl == [][C37_SetexpStep]_vars

\* The request lines that are refused while they are parsed:
\*   the six of FailureLines, and
\*   "SETEXP a zz" (non-integer TTL)
\*   "SETEXP" (missing key)
\*   "DEL" (missing key)
ParseFailureLines ==
    FailureLines \cup
    {<<83, 69, 84, 69, 88, 80, 32, 97, 32, 122, 122>>,
     <<83, 69, 84, 69, 88, 80>>,
     <<68, 69, 76>>}

StoresUnchanged ==
    /\ keyDataSpace' = keyDataSpace
    /\ keyExpirations' = keyExpirations

WritesERR ==
    /\ Len(out') = Len(out) + 1
    /\ BeginsWithERR(out'[Len(out')])

C38_ErrStep ==
    /\ (ReadsLine /\ LineRead \in ParseFailureLines) =>
          (WritesERR /\ StoresUnchanged)
    /\ WritesERR => StoresUnchanged

\* C38: a command that replies ERR changes nothing. For SET with a missing
\* key or value, a malformed quoted or block value or a non-integer TTL,
\* for GET, DEL and SETEXP with a parse error, and for an unknown command
\* word, the step that reads the line writes the ERR line and leaves the
\* Keyspace and the Expiration Index as they were; and every step that
\* writes a response line beginning with ERR leaves both stores as they
\* were.
C38_ErrChangesNothing == [][C38_ErrStep]_vars

\* A SET stored a key, the next line failed to parse and was answered with
\* ERR, and the key is still held by both stores.
C38_Witness ==
    /\ Len(out) = 2
    /\ out[1] = S_OK
    /\ inp[2] \in ParseFailureLines
    /\ BeginsWithERR(out[2])
    /\ InKeyspace(<<97>>)
    /\ InIndex(<<97>>)

====
